---- MODULE Spec2Model ----
(***************************************************************************)
(* A model of the lavaflow client: the node registry (NodeManager), the    *)
(* per-node connection state machine (Node) and the part of Manager that   *)
(* creates players on the selected node.                                   *)
(*                                                                         *)
(* A Node object is a record; every handler of the class is an operator    *)
(* from the record before the call to the record after it, and every      *)
(* action of the model runs one whole handler (one turn of the event       *)
(* loop).  Timers, sockets and pending promises are part of the state.     *)
(***************************************************************************)
EXTENDS Integers, Sequences, FiniteSets, TLC

VARIABLES
    node,         \* node object id -> Node record (NoNode before construction)
    registry,     \* NodeManager.nodes: the Map's entries in insertion order
    clientId,     \* NodeManager.clientId is set (init was called)
    calc,         \* NodeManager.customPenaltyCalculator ("null" or a preset)
    initialized,  \* Manager.initialized
    players,      \* Manager.players: guild -> node id the player is bound to
    player,       \* the Player object of the guild
    ret           \* outcome of the call or handler run by the last step

vars == <<node, registry, clientId, calc, initialized, players, player, ret>>

\* The outcome of a step: the call or event, its argument, what it returned
\* and the error it threw or reported
Outcome(op, arg, res, err) == [op |-> op, arg |-> arg, res |-> res, err |-> err]

----------------------------------------------------------------------------
\* Bounds of the model

MaxNodes == 2           \* Node objects constructed in one behaviour
MaxOrphanSockets == 1   \* replaced sockets of a node that still have listeners
MaxOrphanTimers == 1    \* reconnect timers / heartbeat intervals whose handle was overwritten
MaxPollers == 1         \* reconnect() calls of a node awaiting waitForConnection

NodeIds == 1..MaxNodes
Guilds == {"g1"}

----------------------------------------------------------------------------
\* Strings are sequences of characters

RegUSW == <<"U", "S", "_", "W">>
RegEu == <<"e", "u">>
NoRegion == <<>>

HintNone == <<>>
HintUs == <<"u", "s">>
HintUsWest == <<"u", "s", "-", "w", "e">>
HintAsia == <<"a", "s">>
HintDash == <<"-">>

Hints == {HintNone, HintUs, HintUsWest, HintAsia, HintDash}

\* options.reconnectDelay ?? 5000, and the maxDelay of the node's backoff
DefaultReconnectDelay == 5000
MaxDelay == 60000

\* The NodeOptions the callers pass to addNode
NodeOptionSets ==
    { [name |-> "a", region |-> RegUSW,   maxReconnectAttempts |-> 1,
       reconnectDelay |-> DefaultReconnectDelay],
      [name |-> "b", region |-> RegEu,    maxReconnectAttempts |-> 1,
       reconnectDelay |-> DefaultReconnectDelay],
      [name |-> "a", region |-> NoRegion, maxReconnectAttempts |-> 0,
       reconnectDelay |-> DefaultReconnectDelay],
      [name |-> "b", region |-> RegUSW,   maxReconnectAttempts |-> 2,
       reconnectDelay |-> DefaultReconnectDelay] }

Names == {o.name : o \in NodeOptionSets}

\* The stats events the backend sends (load in percent, memory in units)
NoFrames == [present |-> FALSE, deficit |-> 0, nulled |-> 0]

StatsLight ==
    [null |-> FALSE, players |-> 1, playingPlayers |-> 1, cores |-> 2, lavalinkLoad |-> 50,
     used |-> 50, allocated |-> 100, frameStats |-> NoFrames]

StatsHeavy ==
    [null |-> FALSE, players |-> 0, playingPlayers |-> 0, cores |-> 0, lavalinkLoad |-> 50,
     used |-> 90, allocated |-> 100,
     frameStats |-> [present |-> TRUE, deficit |-> 1, nulled |-> 1]]

NoStats ==
    [null |-> TRUE, players |-> 0, playingPlayers |-> 0, cores |-> 0, lavalinkLoad |-> 0,
     used |-> 0, allocated |-> 0, frameStats |-> NoFrames]

StatsEvents == {StatsLight, StatsHeavy}

SessionIds == {1}
NullSession == 0

ResumeTimeout == 60
NormalClosure == 1000
AbnormalClosure == 1006
HeartbeatClose == 4000
CloseCodes == {NormalClosure, AbnormalClosure, HeartbeatClose}

----------------------------------------------------------------------------
\* String helpers of matchesRegion

ToLowerCase(c) ==
    CASE c = "U" -> "u"
      [] c = "S" -> "s"
      [] c = "W" -> "w"
      [] c = "E" -> "e"
      [] OTHER -> c

RECURSIVE normalize(_)
normalize(r) ==
    IF r = <<>> THEN <<>>
    ELSE LET c == ToLowerCase(Head(r))
         IN IF c \in {"-", "_"} THEN normalize(Tail(r))
            ELSE <<c>> \o normalize(Tail(r))

\* String.prototype.includes: part occurs in whole as a contiguous substring
includes(whole, part) ==
    \E i \in 0..(Len(whole) - Len(part)) :
        \A k \in 1..Len(part) : whole[i + k] = part[k]

\* matchesRegion that looks for the hint in the region only
matchesRegionOneWay(nodeRegion, voiceRegion) ==
    includes(normalize(nodeRegion), normalize(voiceRegion))

matchesRegion(nodeRegion, voiceRegion) ==
    \/ includes(normalize(nodeRegion), normalize(voiceRegion))
    \/ includes(normalize(voiceRegion), normalize(nodeRegion))

----------------------------------------------------------------------------
\* The Node class

\* A Node record.  ws is the readyState of the socket this.ws refers to ("NULL"
\* when this.ws is null); a socket that connect() replaced while it still had
\* listeners and was not closed is counted in orphans by its readyState.
\* rtPending says that the timer this.reconnectTimeout refers to has not fired
\* or been cleared; rtOrphans counts pending reconnect timers whose handle was
\* overwritten.  hbRunning and hbOrphans do the same for heartbeat intervals.
\* stale says that more than the heartbeat timeout passed since lastHeartbeat.
\* addWait and recWait are the pending waitForConnection promises awaited by
\* NodeManager.addNode and by reconnect().  err is the last error passed to
\* the onError handler by the handler that is running.  disc and gaveUp
\* record history: the caller of the last disconnect(), and that
\* scheduleReconnect found the attempts exhausted.  sched is the delay of the
\* reconnect timer the running handler has set (0 for none) and lastDelay the
\* delay of the last reconnect timer set since the last 'open' (0 for none).
\* quiet says that more than the heartbeat timeout passed since the last
\* playerUpdate or 'open'.  sessionStale says that sessionId was delivered
\* before the last close or disconnect().
NoNode == [exists |-> FALSE]

NoOrphans == [CONNECTING |-> 0, OPEN |-> 0, CLOSING |-> 0]

NewNode(options) ==
    [exists |-> TRUE,
     name |-> options.name,
     region |-> options.region,
     maxReconnectAttempts |-> options.maxReconnectAttempts,
     reconnectDelay |-> options.reconnectDelay,
     state |-> "DISCONNECTED",
     stats |-> NoStats,
     sessionId |-> NullSession,
     ws |-> "NULL",
     orphans |-> NoOrphans,
     attempt |-> 0,
     rtPending |-> FALSE,
     rtOrphans |-> 0,
     hbRunning |-> FALSE,
     hbOrphans |-> 0,
     stale |-> FALSE,
     addWait |-> FALSE,
     recWait |-> 0,
     err |-> "none",
     disc |-> "no",
     gaveUp |-> FALSE,
     sched |-> 0,
     lastDelay |-> 0,
     quiet |-> FALSE,
     sessionStale |-> FALSE,
     userId |-> "none"]

OrphanCount(r) == r.orphans.CONNECTING + r.orphans.OPEN + r.orphans.CLOSING

\* ExponentialBackoff (utils/backoff): the attempt counter against maxAttempts
hasReachedMaxAttempts(r) == r.attempt >= r.maxReconnectAttempts

\* The delay next() returns, without the jitter
backoffDelay(r) ==
    IF r.reconnectDelay * (2 ^ r.attempt) > MaxDelay THEN MaxDelay
    ELSE r.reconnectDelay * (2 ^ r.attempt)

backoffNext(r) == [r EXCEPT !.attempt = @ + 1]

backoffReset(r) == [r EXCEPT !.attempt = 0]

\* isConnected without the readyState check
isConnectedByState(r) == r.state = "CONNECTED"

isConnected(r) == r.state = "CONNECTED" /\ r.ws = "OPEN"

Infinity == 1000000000

\* Penalties are in thousandths
PlusPenalty(a, b) == IF a = Infinity \/ b = Infinity THEN Infinity ELSE a + b

cpuPenalty(stats) ==
    IF stats.cores > 0 THEN (stats.lavalinkLoad * 1000) \div stats.cores ELSE 0

\* used / allocated is Infinity for allocated = 0 < used and NaN for 0 / 0;
\* NaN > 0.8 is false
memoryPenalty(stats) ==
    IF stats.allocated = 0
    THEN IF stats.used > 0 THEN Infinity ELSE 0
    ELSE IF stats.used * 10 > stats.allocated * 8
         THEN ((stats.used * 500000) \div stats.allocated) - 400000
         ELSE 0

framesPenalty(stats) ==
    IF stats.frameStats.present
    THEN (stats.frameStats.deficit * 2 + stats.frameStats.nulled) * 1000
    ELSE 0

\* getPenalty that scores a node without stats as an idle one
getPenaltyWithoutStats(r) ==
    IF ~isConnected(r) THEN Infinity
    ELSE PlusPenalty(
            PlusPenalty((r.stats.players + r.stats.playingPlayers * 2) * 1000,
                        cpuPenalty(r.stats)),
            PlusPenalty(memoryPenalty(r.stats), framesPenalty(r.stats)))

getPenalty(r) ==
    IF ~isConnected(r) \/ r.stats.null THEN Infinity
    ELSE PlusPenalty(
            PlusPenalty((r.stats.players + r.stats.playingPlayers * 2) * 1000,
                        cpuPenalty(r.stats)),
            PlusPenalty(memoryPenalty(r.stats), framesPenalty(r.stats)))

LiveStates == {"CONNECTING", "OPEN", "CLOSING"}

\* The counters the model bounds
WithinBounds(r) ==
    /\ OrphanCount(r) <= MaxOrphanSockets
    /\ r.rtOrphans <= MaxOrphanTimers
    /\ r.hbOrphans <= MaxOrphanTimers
    /\ r.recWait <= MaxPollers

\* connect(): the state check that throws
cannotConnect(r) == r.state # "DISCONNECTED" /\ r.state # "RECONNECTING"

\* connect(clientId) up to the await: a new socket replaces this.ws; the
\* socket it replaces is neither closed nor stripped of its listeners. userId
\* is where the 'User-Id' header of the new socket comes from: "clientId" for
\* the client id of the registry, "sessionId" for a session id of the backend
connect(r, userId) ==
    [r EXCEPT !.state = "CONNECTING",
              !.userId = userId,
              !.orphans = IF r.ws \in LiveStates
                          THEN [@ EXCEPT ![r.ws] = @ + 1]
                          ELSE @,
              !.ws = "CONNECTING"]

clearReconnectTimeout(r) == [r EXCEPT !.rtPending = FALSE]

clearHeartbeatInterval(r) == [r EXCEPT !.hbRunning = FALSE]

disconnect(r, caller) ==
    [clearHeartbeatInterval(clearReconnectTimeout(r))
        EXCEPT !.state = "DISCONNECTED", !.ws = "NULL", !.disc = caller,
               !.sessionStale = r.sessionId # NullSession]

startHeartbeat(r) ==
    [r EXCEPT !.hbOrphans = IF r.hbRunning THEN @ + 1 ELSE @,
              !.hbRunning = TRUE]

\* onOpen without this.backoff.reset()
onOpenWithoutReset(r) ==
    startHeartbeat([r EXCEPT !.state = "CONNECTED", !.stale = FALSE, !.lastDelay = 0])

onOpen(r) ==
    startHeartbeat([backoffReset(r) EXCEPT
                       !.state = "CONNECTED", !.stale = FALSE, !.lastDelay = 0])

scheduleReconnect(r) ==
    IF hasReachedMaxAttempts(r)
    THEN [r EXCEPT !.err = "Max reconnection attempts reached", !.gaveUp = TRUE]
    ELSE [backoffNext(r) EXCEPT
             !.state = "RECONNECTING",
             !.sched = backoffDelay(r),
             !.lastDelay = backoffDelay(r),
             !.rtOrphans = IF r.rtPending THEN @ + 1 ELSE @,
             !.rtPending = TRUE]

onClose(r, code) ==
    LET closed == clearHeartbeatInterval(
                      [r EXCEPT !.state = "DISCONNECTED",
                                !.sessionStale = r.sessionId # NullSession])
    IN IF code # NormalClosure /\ r.maxReconnectAttempts # 0
       THEN scheduleReconnect(closed)
       ELSE closed

\* reconnect() up to its await; sessionId is what it passes to connect()
reconnect(r) ==
    IF r.sessionId = NullSession
    THEN [r EXCEPT !.err = "Cannot reconnect without session ID"]
    ELSE IF cannotConnect(r)
         THEN scheduleReconnect([r EXCEPT !.err = "Cannot connect when state is"])
         ELSE [connect(r, "sessionId") EXCEPT !.recWait = @ + 1]

\* reconnect() after its await rejected: the catch block
reconnectFailed(r, error) ==
    scheduleReconnect([r EXCEPT !.recWait = @ - 1, !.err = error])

handleReadyEvent(r, sessionId) ==
    [r EXCEPT !.sessionId = sessionId, !.sessionStale = FALSE]

\* No updateSession request
NoRequest == [resuming |-> FALSE, timeout |-> 0, session |-> NullSession]

\* A ready event that configures resuming whatever it reports
sessionResumingAlways(sessionId, wasResumed) ==
    [resuming |-> TRUE, timeout |-> ResumeTimeout, session |-> sessionId]

\* The updateSession(true, resumeTimeout) request of handleReadyEvent, for
\* the session id the event has just delivered
sessionResuming(sessionId, wasResumed) ==
    IF ~wasResumed
    THEN [resuming |-> TRUE, timeout |-> ResumeTimeout, session |-> sessionId]
    ELSE NoRequest

\* handlePlayerUpdateEvent without this.lastHeartbeat = Date.now()
handlePlayerUpdateEventNoRefresh(r) == r

handlePlayerUpdateEvent(r) == [r EXCEPT !.stale = FALSE]

handleStatsEvent(r, stats) == [r EXCEPT !.stats = stats]

\* The callback of the heartbeat interval: this.ws?.close(4000, ...)
heartbeatCheck(r) ==
    IF r.stale
    THEN [r EXCEPT !.err = "Heartbeat timeout",
                   !.ws = IF @ \in {"CONNECTING", "OPEN"} THEN "CLOSING" ELSE @]
    ELSE r

----------------------------------------------------------------------------
\* The NodeManager class

\* The presets of setPenaltyCalculator: a calculator that scores every node
\* alike, and one that scores by name whatever the node's state
Calculators == {"flat", "byName"}

customPenalty(c, r) ==
    IF c = "flat" THEN 7000
    ELSE IF r.name = "a" THEN 9000 ELSE 3000

penaltyFn(id) ==
    IF calc # "null" THEN customPenalty(calc, node[id]) ELSE getPenalty(node[id])

has(name) == \E i \in 1..Len(registry) : node[registry[i]].name = name

\* Map.get: the node id registered under the name, 0 for undefined
get(name) ==
    IF has(name)
    THEN registry[CHOOSE i \in 1..Len(registry) : node[registry[i]].name = name]
    ELSE 0

\* Map.delete
delete(name) == SelectSeq(registry, LAMBDA id : node[id].name # name)

getConnectedNodes == SelectSeq(registry, LAMBDA id : isConnected(node[id]))

\* The scan with <= for <: of equal penalties the last one wins
RECURSIVE scanFromLastWins(_, _, _, _)
scanFromLastWins(nodes, i, bestNode, lowestPenalty) ==
    IF i > Len(nodes) THEN bestNode
    ELSE IF penaltyFn(nodes[i]) <= lowestPenalty
         THEN scanFromLastWins(nodes, i + 1, nodes[i], penaltyFn(nodes[i]))
         ELSE scanFromLastWins(nodes, i + 1, bestNode, lowestPenalty)

RECURSIVE scanFrom(_, _, _, _)
scanFrom(nodes, i, bestNode, lowestPenalty) ==
    IF i > Len(nodes) THEN bestNode
    ELSE IF penaltyFn(nodes[i]) < lowestPenalty
         THEN scanFrom(nodes, i + 1, nodes[i], penaltyFn(nodes[i]))
         ELSE scanFrom(nodes, i + 1, bestNode, lowestPenalty)

selectBestFromNodes(nodes) == scanFrom(nodes, 2, nodes[1], penaltyFn(nodes[1]))

regionalNodes(voiceRegion) ==
    SelectSeq(getConnectedNodes,
              LAMBDA id : /\ node[id].region # <<>>
                          /\ matchesRegion(node[id].region, voiceRegion))

\* The node id returned, 0 for the error 'No connected nodes available'
getBestNode(voiceRegion) ==
    IF Len(getConnectedNodes) = 0 THEN 0
    ELSE IF voiceRegion # <<>> /\ Len(regionalNodes(voiceRegion)) > 0
         THEN selectBestFromNodes(regionalNodes(voiceRegion))
         ELSE selectBestFromNodes(getConnectedNodes)

----------------------------------------------------------------------------
\* The Player class

\* Tracks are named by their encoded string; NoTrack is null / undefined
Tracks == {1, 2}
NoTrack == 0

\* The tracks of the sessions that loop over a queue
Songs == {1, 2, 3}

\* track.info.length in milliseconds
TrackLength(t) == IF t = 1 THEN 2000 ELSE 1000

\* historyMaxSize, and the length previousTracks is kept to
HistoryMaxSize == 50
MaxHistorySize == 50
RandomSteps == 2        \* values of Math.random that are told apart
PreviousMaxSize == 10

LoopModes == {"off", "track", "queue"}

\* The reasons of a TrackEndEvent
Reasons == {"finished", "stopped", "replaced", "loadFailed", "cleanup"}

\* A field the UpdatePlayerPayload does not have
Absent == -1

NoPayload == [encodedTrack |-> Absent, paused |-> Absent, position |-> Absent,
              volume |-> Absent, voice |-> Absent]

\* voiceState = {}: none of the fragments is set
NoVoice == [token |-> FALSE, endpoint |-> FALSE, sessionId |-> FALSE]

\* The text a caller has not saved yet
NoText == [kind |-> "none"]

\* A Player record.  calls are the requests to the node in flight, in the
\* order they were sent, each with the method awaiting it, that method's
\* argument, the method that awaits that method (caller) and the parsed text
\* a restoreQueue among them works on; timer says that
\* positionUpdateInterval is set.  err is the error the running method threw
\* and out the events the running turn emitted and the values it returned.
\* want and overlap record history: the current track that the play and stop
\* calls made so far give when applied in the order they were made (Absent
\* once one of them failed), and the number of play and stop calls made
\* since none of them was in flight.  destroyed records that destroy() has
\* run to its end.  text is what the caller keeps of the last saveQueue() and
\* snapshot the queue, loop mode and volume the player had at that call.
NewPlayer ==
    [track |-> NoTrack,
     queue |-> <<>>,
     previousTracks |-> <<>>,
     history |-> <<>>,
     playedIdentifiers |-> <<>>,
     loopMode |-> "off",
     autoPlay |-> TRUE,
     position |-> 0,
     paused |-> FALSE,
     volume |-> 100,
     connected |-> FALSE,
     voiceState |-> NoVoice,
     timer |-> FALSE,
     calls |-> <<>>,
     err |-> "none",
     out |-> <<>>,
     want |-> NoTrack,
     overlap |-> 0,
     destroyed |-> FALSE,
     text |-> NoText,
     snapshot |-> <<>>]

\* this.eventEmitter.emit(event), and a value the running method returns
emit(p, event) == [p EXCEPT !.out = Append(@, event)]

\* await this.node.updatePlayer(this.guildId, payload): the request is sent
updatePlayer(p, method, arg, payload) ==
    [p EXCEPT !.calls = Append(@, [op |-> method, arg |-> arg, payload |-> payload,
                                   caller |-> "none", saved |-> NoText])]

\* The method that made the last request is itself awaited by caller, which
\* keeps the parsed text saved
awaitedBy(p, caller, saved) ==
    [p EXCEPT !.calls[Len(p.calls)].caller = caller,
              !.calls[Len(p.calls)].saved = saved]

\* play that takes the track from the end of the queue
playFromEnd(p, track) ==
    LET trackToPlay == IF track # NoTrack THEN track
                       ELSE IF p.queue # <<>> THEN p.queue[Len(p.queue)]
                       ELSE NoTrack
        shifted == IF track = NoTrack /\ p.queue # <<>>
                   THEN SubSeq(p.queue, 1, Len(p.queue) - 1) ELSE p.queue
    IN IF trackToPlay = NoTrack
       THEN [p EXCEPT !.err = "No track provided and queue is empty"]
       ELSE updatePlayer([p EXCEPT !.queue = shifted, !.track = trackToPlay],
                         "play", trackToPlay,
                         [NoPayload EXCEPT !.encodedTrack = trackToPlay])

\* play(track) up to its await; track = NoTrack for play()
play(p, track) ==
    LET trackToPlay == IF track # NoTrack THEN track
                       ELSE IF p.queue # <<>> THEN Head(p.queue)
                       ELSE NoTrack
        shifted == IF track = NoTrack /\ p.queue # <<>> THEN Tail(p.queue) ELSE p.queue
    IN IF trackToPlay = NoTrack
       THEN [p EXCEPT !.err = "No track provided and queue is empty"]
       ELSE updatePlayer([p EXCEPT !.queue = shifted, !.track = trackToPlay],
                         "play", trackToPlay,
                         [NoPayload EXCEPT !.encodedTrack = trackToPlay])

\* pause that sets the flag before the request completes
pauseOptimistic(p, flag) ==
    updatePlayer([p EXCEPT !.paused = flag], "pause", IF flag THEN 1 ELSE 0,
                 [NoPayload EXCEPT !.paused = IF flag THEN 1 ELSE 0])

pause(p, flag) ==
    updatePlayer(p, "pause", IF flag THEN 1 ELSE 0,
                 [NoPayload EXCEPT !.paused = IF flag THEN 1 ELSE 0])

stop(p) == updatePlayer(p, "stop", 0, [NoPayload EXCEPT !.encodedTrack = NoTrack])

\* seek that rejects the position equal to the length
seekBelowLength(p, position) ==
    IF p.track = NoTrack THEN [p EXCEPT !.err = "No track is currently playing"]
    ELSE IF position < 0 \/ position >= TrackLength(p.track)
         THEN [p EXCEPT !.err = "Position out of bounds"]
         ELSE updatePlayer(p, "seek", position, [NoPayload EXCEPT !.position = position])

seek(p, position) ==
    IF p.track = NoTrack THEN [p EXCEPT !.err = "No track is currently playing"]
    ELSE IF position < 0 \/ position > TrackLength(p.track)
         THEN [p EXCEPT !.err = "Position out of bounds"]
         ELSE updatePlayer(p, "seek", position, [NoPayload EXCEPT !.position = position])

\* setVolume that sends the volume on the scale of the caller
setVolumeUnscaled(p, volume) ==
    IF volume < 0 \/ volume > 100
    THEN [p EXCEPT !.err = "Volume must be between 0 and 100"]
    ELSE updatePlayer(p, "setVolume", volume, [NoPayload EXCEPT !.volume = volume])

\* Math.floor(volume * 10) of an integer volume
setVolume(p, volume) ==
    IF volume < 0 \/ volume > 100
    THEN [p EXCEPT !.err = "Volume must be between 0 and 100"]
    ELSE updatePlayer(p, "setVolume", volume, [NoPayload EXCEPT !.volume = volume * 10])

\* The rest of the method after its await, the request having succeeded
afterUpdate(p, call) ==
    CASE call.op = "play" -> [p EXCEPT !.timer = TRUE]
      [] call.op = "pause" -> [p EXCEPT !.paused = (call.arg = 1)]
      [] call.op = "stop" -> [p EXCEPT !.track = NoTrack, !.position = 0, !.timer = FALSE]
      [] call.op = "seek" -> [p EXCEPT !.position = call.arg]
      [] call.op = "setVolume" -> [p EXCEPT !.volume = call.arg]
      [] call.op = "updateVoiceState" -> [p EXCEPT !.connected = TRUE]
      [] call.op \in {"search", "destroyPlayer"} -> p

isPlaying(p) == p.track # NoTrack /\ ~p.paused

\* The callback of positionUpdateInterval
positionUpdate(p) ==
    IF isPlaying(p) /\ p.track # NoTrack
    THEN [p EXCEPT !.position = IF @ + 1000 > TrackLength(p.track)
                                THEN TrackLength(p.track) ELSE @ + 1000]
    ELSE p

clearPositionUpdate(p) == [p EXCEPT !.timer = FALSE]

\* setLoopMode(mode)
setLoopMode(p, mode) == [p EXCEPT !.loopMode = mode]

\* push that drops the track just pushed when the list is over its size
pushKeepingOldest(list, track, size) ==
    IF Len(list) + 1 > size THEN list ELSE Append(list, track)

\* list.push(track); if (list.length > size) list.shift()
pushCapped(list, track, size) ==
    IF Len(list) + 1 > size THEN Tail(Append(list, track)) ELSE Append(list, track)

\* The end of handleTrackEnd: queueEnd is emitted if nothing is queued
emitQueueEnd(p) == IF p.queue = <<>> THEN emit(p, "queueEnd") ELSE p

\* handleTrackEnd that ends without a word after execute returned false
autoPlayFailedSilently(p) == emit(p, "AutoPlay failed")

\* handleTrackEnd after execute returned false or threw
autoPlayFailed(p) == emitQueueEnd(emit(p, "AutoPlay failed"))

\* previousTrack.info.sourceName: a track's number is its identifier, track
\* 1 is from YouTube, track 2 from SoundCloud, the others from Spotify
SourceName(track) ==
    CASE track = 1 -> "youtube"
      [] track = 2 -> "soundcloud"
      [] OTHER -> "spotify"

\* playedIdentifiers.has(identifier), the Set as the list of its elements in
\* the order they were inserted
played(identifiers, identifier) ==
    \E i \in 1..Len(identifiers) : identifiers[i] = identifier

\* An insertion that deletes nothing
rememberAll(identifiers, identifier) ==
    IF played(identifiers, identifier) THEN identifiers
    ELSE Append(identifiers, identifier)

\* playedIdentifiers.add(identifier) and, the size being over maxHistorySize,
\* the deletion of the first element
remember(identifiers, identifier) ==
    LET added == IF played(identifiers, identifier) THEN identifiers
                 ELSE Append(identifiers, identifier)
    IN IF Len(added) > MaxHistorySize THEN Tail(added) ELSE added

\* The frame of an execute that the owner of the player called, not
\* handleTrackEnd
Direct == [kind |-> "execute"]

\* execute returns success to from: handleTrackEnd runs on, any other
\* caller has the value
returned(p, success, from) ==
    IF from = Direct THEN emit(p, IF success THEN "return true" ELSE "return false")
    ELSE IF success THEN emit(p, "AutoPlay added")
    ELSE autoPlayFailed(p)

\* AutoPlay.execute(player, previousTrack) up to the await of its search; up
\* is what player.node.isConnected() returns
execute(p, previousTrack, up, from) ==
    IF previousTrack = NoTrack \/ ~up THEN returned(p, FALSE, from)
    ELSE awaitedBy(updatePlayer(
                       [p EXCEPT !.playedIdentifiers = remember(@, previousTrack)],
                       "search", previousTrack, NoPayload),
                   "execute", from)

\* A LoadResult with what Math.random gives for the pick, in steps of
\* 1/RandomSteps; NoResult is an empty result
LoadTypes == {"track", "playlist", "search", "empty", "error"}

NoResult == [loadType |-> "empty", tracks |-> <<>>, random |-> 0]

\* The result that holds the one track found, or nothing for NoTrack
Single(found) ==
    IF found = NoTrack THEN NoResult
    ELSE [loadType |-> "track", tracks |-> <<found>>, random |-> 0]

\* The tracks a strategy takes from the result of its search: only the
\* strategy for YouTube reads a playlist
candidates(sourceName, result) ==
    IF result.loadType \in {"error", "empty"} THEN <<>>
    ELSE IF result.loadType = "playlist" /\ sourceName # "youtube" THEN <<>>
    ELSE result.tracks

\* A filter that lets every track through
unfiltered(identifiers, tracks) == tracks

\* tracks.filter(not played), and all the tracks if none is left
availableTracks(identifiers, tracks) ==
    LET fresh == SelectSeq(tracks, LAMBDA track : ~played(identifiers, track))
    IN IF fresh = <<>> THEN tracks ELSE fresh

\* The strategy of execute after its search, for the frame call of the
\* search: a random available track is added to the queue and play() called
afterSearch(p, call, result) ==
    LET available == availableTracks(p.playedIdentifiers,
                                     candidates(SourceName(call.arg), result))
    IN IF available = <<>> THEN returned(p, FALSE, call.saved)
       ELSE LET randomTrack ==
                    available[((result.random * Len(available)) \div RandomSteps) + 1]
            IN awaitedBy(play([p EXCEPT !.queue = Append(@, randomTrack)], NoTrack),
                         "execute", call.saved)

\* A test of the reason that every reason passes
anyReason(reason) == TRUE

\* reason === 'finished'
isFinished(reason) == reason = "finished"

\* A requeue that puts the track at the head of the queue
requeueAtHead(p, track) == [p EXCEPT !.queue = <<track>> \o @]

\* this.queue.push(previousTrack) of the queue loop
requeue(p, track) == [p EXCEPT !.queue = Append(@, track)]

\* handleTrackEnd(reason) up to its first await
handleTrackEnd(p, reason, up) ==
    LET previousTrack == p.track
        recorded == IF p.track = NoTrack THEN p
                    ELSE [p EXCEPT
                            !.history = pushCapped(@, p.track, HistoryMaxSize),
                            !.previousTracks = pushCapped(@, p.track, PreviousMaxSize)]
    IN IF isFinished(reason) /\ p.loopMode = "track" /\ previousTrack # NoTrack
       THEN awaitedBy(play(recorded, previousTrack), "handleTrackEnd", NoText)
       ELSE LET pushed == IF /\ isFinished(reason) /\ p.loopMode = "queue"
                             /\ previousTrack # NoTrack
                          THEN requeue(recorded, previousTrack)
                          ELSE recorded
                cleared == clearPositionUpdate(
                               [pushed EXCEPT !.track = NoTrack, !.position = 0])
            IN IF isFinished(reason) /\ cleared.queue # <<>>
               THEN awaitedBy(play(cleared, NoTrack), "handleTrackEnd", NoText)
               ELSE IF /\ cleared.autoPlay /\ isFinished(reason)
                       /\ cleared.queue = <<>> /\ previousTrack # NoTrack
               THEN execute(cleared, previousTrack, up, NoText)
               ELSE emitQueueEnd(cleared)

\* skip() up to its await
skip(p) ==
    IF p.queue = <<>> THEN awaitedBy(stop(p), "skip", NoText)
    ELSE awaitedBy(play(p, NoTrack), "skip", NoText)

\* previous that takes the oldest track of previousTracks
previousOldest(p) ==
    IF p.previousTracks = <<>> THEN emit(p, "return false")
    ELSE LET previousTrack == Head(p.previousTracks)
             popped == [p EXCEPT !.previousTracks = Tail(@)]
             requeued == IF p.track # NoTrack
                         THEN [popped EXCEPT !.queue = <<p.track>> \o @]
                         ELSE popped
         IN awaitedBy(play(requeued, previousTrack), "previous", NoText)

\* previous() up to its await
previous(p) ==
    IF p.previousTracks = <<>> THEN emit(p, "return false")
    ELSE LET previousTrack == p.previousTracks[Len(p.previousTracks)]
             popped == [p EXCEPT !.previousTracks =
                                     SubSeq(@, 1, Len(p.previousTracks) - 1)]
             requeued == IF p.track # NoTrack
                         THEN [popped EXCEPT !.queue = <<p.track>> \o @]
                         ELSE popped
         IN awaitedBy(play(requeued, previousTrack), "previous", NoText)

\* The values a fragment of the voice state gives a key: none, a value that
\* is falsy (null, the empty string), a value that is truthy
FragmentValues == {"absent", "empty", "set"}

Fragments == [token : FragmentValues, endpoint : FragmentValues,
              sessionId : FragmentValues]

\* { ...this.voiceState, ...state }, of each key whether its value is truthy
merge(voiceState, state) ==
    [key \in {"token", "endpoint", "sessionId"} |->
        IF state[key] = "absent" THEN voiceState[key] ELSE state[key] = "set"]

\* updateVoiceState that asks for the token and the endpoint only
updateVoiceStateWithoutSession(p, state) ==
    LET merged == [p EXCEPT !.voiceState = merge(@, state)]
    IN IF merged.voiceState.token /\ merged.voiceState.endpoint
       THEN updatePlayer(merged, "updateVoiceState", state, [NoPayload EXCEPT !.voice = 1])
       ELSE merged

\* updateVoiceState(state) up to its await
updateVoiceState(p, state) ==
    LET merged == [p EXCEPT !.voiceState = merge(@, state)]
    IN IF /\ merged.voiceState.token /\ merged.voiceState.endpoint
          /\ merged.voiceState.sessionId
       THEN updatePlayer(merged, "updateVoiceState", state, [NoPayload EXCEPT !.voice = 1])
       ELSE merged

\* updateState(state) of a PlayerUpdateEvent
updateState(p, position, connected) ==
    [p EXCEPT !.position = position, !.connected = connected]

\* disconnect()
playerDisconnect(p) == clearPositionUpdate([p EXCEPT !.connected = FALSE])

\* await this.node.destroyPlayer(this.guildId)
destroyPlayer(p) == updatePlayer(p, "destroyPlayer", 0, NoPayload)

\* destroy() up to the await of its stop()
destroy(p) == awaitedBy(stop(p), "destroy", NoText)

\* JSON text: a number is the sequence of its decimal digits
DigitChars == <<"0", "1", "2", "3", "4", "5", "6", "7", "8", "9">>

RECURSIVE JSONNumber(_)
JSONNumber(n) ==
    IF n < 10 THEN <<DigitChars[n + 1]>>
    ELSE Append(JSONNumber(n \div 10), DigitChars[(n % 10) + 1])

DigitOf(char) == CHOOSE d \in 0..9 : DigitChars[d + 1] = char

RECURSIVE ParseNumber(_)
ParseNumber(text) ==
    IF Len(text) = 1 THEN DigitOf(text[1])
    ELSE 10 * ParseNumber(SubSeq(text, 1, Len(text) - 1)) + DigitOf(text[Len(text)])

\* JSON.stringify of the object saveQueue builds, key by key
stringify(p) ==
    [kind |-> "json",
     queue |-> [i \in 1..Len(p.queue) |-> JSONNumber(p.queue[i])],
     currentTrack |-> IF p.track = NoTrack THEN <<"null">> ELSE JSONNumber(p.track),
     position |-> JSONNumber(p.position),
     volume |-> JSONNumber(p.volume),
     loopMode |-> <<p.loopMode>>,
     paused |-> <<IF p.paused THEN "true" ELSE "false">>]

\* JSON.parse of a text that is JSON
parse(text) ==
    [queue |-> [i \in 1..Len(text.queue) |-> ParseNumber(text.queue[i])],
     currentTrack |-> IF text.currentTrack = <<"null">> THEN NoTrack
                      ELSE ParseNumber(text.currentTrack),
     position |-> ParseNumber(text.position),
     volume |-> ParseNumber(text.volume),
     loopMode |-> text.loopMode[1],
     paused |-> text.paused = <<"true">>]

\* saveQueue(): the caller keeps the text
saveQueue(p) ==
    [p EXCEPT !.text = stringify(p), !.snapshot = <<p.queue, p.loopMode, p.volume>>]

\* A text that is not JSON, and the saved text with a volume out of range
Garbage == [kind |-> "garbage"]
OutOfRange(text) == [text EXCEPT !.volume = JSONNumber(150)]

\* The catch of restoreQueue
restoreFailed(p) == [p EXCEPT !.err = "Failed to restore queue"]

\* restoreQueue after its setVolume and play: pause() if saved.paused
restorePaused(p, saved) ==
    IF saved.paused THEN awaitedBy(pause(p, TRUE), "restoreQueue", saved)
    ELSE emit(p, "Queue restored from save")

\* restoreQueue after its setVolume: play(saved.currentTrack, { startTime })
restoreTrack(p, saved) ==
    IF saved.currentTrack # NoTrack
    THEN LET playing == play(p, saved.currentTrack)
         IN awaitedBy([playing EXCEPT !.calls[Len(playing.calls)].payload.position =
                                         saved.position],
                      "restoreQueue", saved)
    ELSE emit(p, "Queue restored from save")

\* restoreQueue that leaves the loop mode as it is
restoreQueueWithoutLoopMode(p, data) ==
    IF data.kind # "json" THEN restoreFailed(p)
    ELSE LET saved == parse(data)
             volumeSet == setVolume([p EXCEPT !.queue = saved.queue], saved.volume)
         IN IF volumeSet.err # "none" THEN restoreFailed(volumeSet)
            ELSE awaitedBy(volumeSet, "restoreQueue", saved)

\* restoreQueue(data) up to its first await
restoreQueue(p, data) ==
    IF data.kind # "json" THEN restoreFailed(p)
    ELSE LET saved == parse(data)
             volumeSet == setVolume([p EXCEPT !.queue = saved.queue,
                                              !.loopMode = saved.loopMode],
                                    saved.volume)
         IN IF volumeSet.err # "none" THEN restoreFailed(volumeSet)
            ELSE awaitedBy(volumeSet, "restoreQueue", saved)

\* The request of call has succeeded: the method awaiting it runs to its end
\* and the method awaiting that one runs on; result is what a search gives
resumed(p, call, result) ==
    LET q == afterUpdate(p, call)
    IN CASE call.caller \in {"none", "handleTrackEnd"} -> q
         [] call.caller = "execute" ->
               IF call.op = "search" THEN afterSearch(q, call, result)
               ELSE returned(q, TRUE, call.saved)
         [] call.caller = "previous" -> emit(q, "return true")
         [] call.caller = "skip" ->
               emit(q, IF call.op = "stop" THEN "return false" ELSE "return true")
         [] call.caller = "restoreQueue" ->
               IF call.op = "setVolume" THEN restoreTrack(q, call.saved)
               ELSE IF call.op = "play" THEN restorePaused(q, call.saved)
               ELSE emit(q, "Queue restored from save")
         [] call.caller = "destroy" ->
               IF call.op = "stop"
               THEN awaitedBy(destroyPlayer(playerDisconnect(q)), "destroy", call.saved)
               ELSE [emit(q, "playerDestroy") EXCEPT !.destroyed = TRUE]

\* The request of call has failed: the method awaiting it throws; execute
\* and restoreQueue catch, and the Manager catches what handleTrackEnd throws
failed(p, call) ==
    CASE call.caller = "execute" -> returned(p, FALSE, call.saved)
      [] call.caller = "restoreQueue" -> restoreFailed(p)
      [] call.caller = "handleTrackEnd" ->
            [emit(p, "Error handling track end") EXCEPT !.err = "Request failed"]
      [] OTHER -> [p EXCEPT !.err = "Request failed"]

----------------------------------------------------------------------------
\* Steps

\* A handler of node n ends with the record r; of an event the delay of the
\* reconnect timer it set and the error it passed to onError are kept
NodeStep(n, r) ==
    /\ WithinBounds(r)
    /\ node' = [node EXCEPT ![n] = [r EXCEPT !.err = "none", !.sched = 0]]
    /\ ret' = Outcome("event", n, r.sched, r.err)

Exists(n) == node[n].exists

\* A socket of node n that has the node's listeners: this.ws or a replaced one
SocketIn(n, which, readyState) ==
    /\ Exists(n)
    /\ IF which = "ws" THEN node[n].ws = readyState
       ELSE node[n].orphans[readyState] > 0

MoveSocket(r, which, from, to) ==
    IF which = "ws" THEN [r EXCEPT !.ws = to]
    ELSE IF to = "CLOSED" THEN [r EXCEPT !.orphans[from] = @ - 1]
    ELSE [r EXCEPT !.orphans[from] = @ - 1, !.orphans[to] = @ + 1]

Sockets == {"ws", "orphan"}

Init ==
    /\ node = [n \in NodeIds |-> NoNode]
    /\ registry = <<>>
    /\ clientId = FALSE
    /\ calc = "null"
    /\ initialized = FALSE
    /\ players = [g \in Guilds |-> 0]
    /\ player = NewPlayer
    /\ ret = Outcome("none", 0, 0, "none")

\* Manager.init: NodeManager.init(clientId, this)
ManagerInit ==
    /\ ~initialized
    /\ initialized' = TRUE
    /\ clientId' = TRUE
    /\ ret' = Outcome("init", 0, 0, "none")
    /\ UNCHANGED <<node, registry, calc, players, player>>

\* addNode without the check for a registered name
AddNodeUnchecked(options) ==
    /\ clientId
    /\ \E n \in NodeIds :
          /\ ~Exists(n)
          /\ \A m \in NodeIds : m < n => Exists(m)
          /\ node' = [node EXCEPT
                        ![n] = [connect(NewNode(options), "clientId") EXCEPT !.addWait = TRUE]]
          /\ registry' = Append(registry, n)
          /\ ret' = Outcome("addNode", options.name, "added", "none")
    /\ UNCHANGED <<clientId, calc, initialized, players, player>>

\* NodeManager.addNode up to its await
AddNode(options) ==
    /\ IF has(options.name)
       THEN /\ ret' = Outcome("addNode", options.name, "exists", "none")
            /\ UNCHANGED <<node, registry>>
       ELSE IF ~clientId
       THEN /\ ret' = Outcome("addNode", options.name, "not initialized", "none")
            /\ UNCHANGED <<node, registry>>
       ELSE /\ \E n \in NodeIds :
                 /\ ~Exists(n)
                 /\ \A m \in NodeIds : m < n => Exists(m)
                 /\ node' = [node EXCEPT
                               ![n] = [connect(NewNode(options), "clientId") EXCEPT !.addWait = TRUE]]
                 /\ registry' = Append(registry, n)
                 /\ ret' = Outcome("addNode", options.name, "added", "none")
    /\ UNCHANGED <<clientId, calc, initialized, players, player>>

\* waitForConnection of addNode's connect resolves: addNode returns the node
AddNodeResolve(n) ==
    /\ Exists(n) /\ node[n].addWait
    /\ node[n].state = "CONNECTED"
    /\ node' = [node EXCEPT ![n].addWait = FALSE]
    /\ ret' = Outcome("addNodeResolved", n, 0, "none")
    /\ UNCHANGED <<registry, clientId, calc, initialized, players, player>>

\* The registry entry a delete(name) removes, 0 for none
entryOf(name) == get(name)

\* waitForConnection of addNode's connect rejects: the catch block of addNode
AddNodeReject(n, error) ==
    /\ Exists(n) /\ node[n].addWait
    /\ error = "Connection failed" => node[n].state = "DISCONNECTED"
    /\ registry' = delete(node[n].name)
    /\ node' = [node EXCEPT ![n].addWait = FALSE]
    /\ ret' = Outcome("addNodeRejected", n, entryOf(node[n].name), error)
    /\ UNCHANGED <<clientId, calc, initialized, players, player>>

RemoveNode(name) ==
    /\ IF get(name) = 0
       THEN /\ ret' = Outcome("removeNode", name, FALSE, "none")
            /\ UNCHANGED <<node, registry>>
       ELSE /\ node' = [node EXCEPT ![get(name)] = disconnect(@, "removeNode")]
            /\ registry' = delete(name)
            /\ ret' = Outcome("removeNode", name, TRUE, "none")
    /\ UNCHANGED <<clientId, calc, initialized, players, player>>

GetBestNode(voiceRegion) ==
    /\ ret' = Outcome("getBestNode", voiceRegion, getBestNode(voiceRegion), "none")
    /\ UNCHANGED <<node, registry, clientId, calc, initialized, players, player>>

SetPenaltyCalculator(calculator) ==
    /\ calc' = calculator
    /\ ret' = Outcome("setPenaltyCalculator", calculator, 0, "none")
    /\ UNCHANGED <<node, registry, clientId, initialized, players, player>>

ResetPenaltyCalculator ==
    /\ calc' = "null"
    /\ ret' = Outcome("resetPenaltyCalculator", 0, 0, "none")
    /\ UNCHANGED <<node, registry, clientId, initialized, players, player>>

Members == {registry[i] : i \in 1..Len(registry)}

disconnectAllNodes ==
    [n \in NodeIds |-> IF n \in Members THEN disconnect(node[n], "disconnectAll")
                       ELSE node[n]]

DisconnectAll ==
    /\ node' = disconnectAllNodes
    /\ registry' = <<>>
    /\ ret' = Outcome("disconnectAll", Members, 0, "none")
    /\ UNCHANGED <<clientId, calc, initialized, players, player>>

----------------------------------------------------------------------------
\* The Manager class

\* Manager.create without the lookup of the guild's player
CreateUnchecked(guildId) ==
    /\ IF ~initialized
       THEN /\ ret' = Outcome("create", guildId, "not initialized", "none")
            /\ UNCHANGED <<players, player>>
       ELSE IF getBestNode(<<>>) = 0
       THEN /\ ret' = Outcome("create", guildId, "No connected nodes available", "none")
            /\ UNCHANGED <<players, player>>
       ELSE /\ players' = [players EXCEPT ![guildId] = getBestNode(<<>>)]
            /\ player' = NewPlayer
            /\ ret' = Outcome("create", guildId, "created", "none")
    /\ UNCHANGED <<node, registry, clientId, calc, initialized>>

\* Manager.create
Create(guildId) ==
    /\ IF ~initialized
       THEN /\ ret' = Outcome("create", guildId, "not initialized", "none")
            /\ UNCHANGED <<players, player>>
       ELSE IF players[guildId] # 0
       THEN /\ ret' = Outcome("create", guildId, "existing", "none")
            /\ UNCHANGED <<players, player>>
       ELSE IF getBestNode(<<>>) = 0
       THEN /\ ret' = Outcome("create", guildId, "No connected nodes available", "none")
            /\ UNCHANGED <<players, player>>
       ELSE /\ players' = [players EXCEPT ![guildId] = getBestNode(<<>>)]
            /\ player' = NewPlayer
            /\ ret' = Outcome("create", guildId, "created", "none")
    /\ UNCHANGED <<node, registry, clientId, calc, initialized>>

\* The frame of a player.destroy() that Manager.destroyPlayer(guildId) awaits
ByManager(guildId) == [kind |-> "Manager.destroyPlayer", guildId |-> guildId]

\* Manager.destroyPlayer up to its await of player.destroy(); res of the
\* outcome is -1 when the guild has no player and false is returned
DestroyPlayer(guildId) ==
    /\ IF players[guildId] = 0
       THEN /\ ret' = Outcome("Manager.destroyPlayer", guildId, -1, "none")
            /\ UNCHANGED player
       ELSE LET p == awaitedBy(stop(player), "destroy", ByManager(guildId))
            IN /\ player' = [p EXCEPT !.err = "none", !.out = <<>>]
               /\ ret' = Outcome("Manager.destroyPlayer", guildId, 0, "none")
    /\ UNCHANGED <<node, registry, clientId, calc, initialized, players>>

\* The request of the i-th call in flight succeeds; when this ends a
\* player.destroy() that Manager.destroyPlayer awaits, the player is
\* deleted from the registry
ManagerResolve(i) ==
    /\ i \in 1..Len(player.calls)
    /\ player.calls[i].op # "search"
    /\ LET call == player.calls[i]
           p == resumed([player EXCEPT !.calls = SubSeq(@, 1, i - 1) \o SubSeq(@, i + 1, Len(@))],
                        call, NoResult)
       IN /\ player' = [p EXCEPT !.out = SubSeq(p.out, Len(player.out) + 1, Len(p.out))]
          /\ players' = IF call.op = "destroyPlayer" /\ call.saved.kind = "Manager.destroyPlayer"
                        THEN [players EXCEPT ![call.saved.guildId] = 0]
                        ELSE players
          /\ ret' = Outcome(call.op, call.arg, 1, "none")
    /\ UNCHANGED <<node, registry, clientId, calc, initialized>>

\* Manager.destroyAll: the players are destroyed, then NodeManager.disconnectAll
DestroyAll ==
    /\ players' = [g \in Guilds |-> 0]
    /\ node' = disconnectAllNodes
    /\ registry' = <<>>
    /\ initialized' = FALSE
    /\ ret' = Outcome("destroyAll", Members, 0, "none")
    /\ UNCHANGED <<clientId, calc, player>>

----------------------------------------------------------------------------
\* The events of a node: sockets, timers and promises

Rest == <<registry, clientId, calc, initialized, players, player>>

\* 'open' of a connecting socket
SocketOpen(n, which) ==
    /\ SocketIn(n, which, "CONNECTING")
    /\ NodeStep(n, [onOpen(MoveSocket(node[n], which, "CONNECTING", "OPEN"))
                       EXCEPT !.quiet = FALSE])
    /\ UNCHANGED Rest

\* The close handshake of an open socket starts: readyState CLOSING, no event yet
SocketClosing(n, which) ==
    /\ SocketIn(n, which, "OPEN")
    /\ NodeStep(n, MoveSocket(node[n], which, "OPEN", "CLOSING"))
    /\ UNCHANGED Rest

\* 'close' of a socket, with the code the event carries; a socket that never
\* opened closes with 1006
SocketClose(n, which, from, code) ==
    /\ SocketIn(n, which, from)
    /\ from = "CONNECTING" => code = AbnormalClosure
    /\ NodeStep(n, onClose(MoveSocket(node[n], which, from, "CLOSED"), code))
    /\ UNCHANGED Rest

HasOpenSocket(n) == SocketIn(n, "ws", "OPEN") \/ SocketIn(n, "orphan", "OPEN")

\* A ready event: the backend reports a session as resumed only to a
\* connection that had a session; res of the outcome is the updateSession
\* request the handler sends
ReadyEvent(n, sessionId, wasResumed) ==
    /\ HasOpenSocket(n)
    /\ wasResumed => node[n].sessionId # NullSession
    /\ node' = [node EXCEPT ![n] = handleReadyEvent(node[n], sessionId)]
    /\ ret' = Outcome("ready", n, sessionResuming(sessionId, wasResumed), "none")
    /\ UNCHANGED Rest

StatsEvent(n, stats) ==
    /\ HasOpenSocket(n)
    /\ NodeStep(n, handleStatsEvent(node[n], stats))
    /\ UNCHANGED Rest

PlayerUpdateEvent(n) ==
    /\ HasOpenSocket(n)
    /\ NodeStep(n, [handlePlayerUpdateEvent(node[n]) EXCEPT !.quiet = FALSE])
    /\ UNCHANGED Rest

HeartbeatRuns(n) == Exists(n) /\ (node[n].hbRunning \/ node[n].hbOrphans > 0)

\* More than the heartbeat timeout passes without a playerUpdate
HeartbeatTimeoutPasses(n) ==
    /\ HeartbeatRuns(n)
    /\ ~node[n].stale
    /\ NodeStep(n, [node[n] EXCEPT !.stale = TRUE, !.quiet = TRUE])
    /\ UNCHANGED Rest

\* A heartbeat interval of the node ticks
HeartbeatTick(n) ==
    /\ HeartbeatRuns(n)
    /\ NodeStep(n, heartbeatCheck(node[n]))
    /\ UNCHANGED Rest

\* A reconnect timer of the node fires: the one this.reconnectTimeout refers
\* to, or one whose handle was overwritten
ReconnectTimer(n, which) ==
    /\ Exists(n)
    /\ IF which = "tracked" THEN node[n].rtPending ELSE node[n].rtOrphans > 0
    /\ NodeStep(n,
                reconnect(IF which = "tracked"
                          THEN [node[n] EXCEPT !.rtPending = FALSE]
                          ELSE [node[n] EXCEPT !.rtOrphans = @ - 1]))
    /\ UNCHANGED Rest

\* waitForConnection of a reconnect() resolves
ReconnectResolve(n) ==
    /\ Exists(n) /\ node[n].recWait > 0
    /\ node[n].state = "CONNECTED"
    /\ NodeStep(n, [node[n] EXCEPT !.recWait = @ - 1])
    /\ UNCHANGED Rest

\* waitForConnection of a reconnect() rejects: 'Connection failed' when the
\* poll finds DISCONNECTED, 'Connection timeout' when its timer fires first
ReconnectReject(n, error) ==
    /\ Exists(n) /\ node[n].recWait > 0
    /\ error = "Connection failed" => node[n].state = "DISCONNECTED"
    /\ NodeStep(n, reconnectFailed(node[n], error))
    /\ UNCHANGED Rest

WaitErrors == {"Connection failed", "Connection timeout"}

\* node.connect(clientId) called by the owner of the node: it throws on the
\* state check, else opens a socket; its promise settles for the caller only
Connect(n) ==
    /\ Exists(n)
    /\ IF cannotConnect(node[n])
       THEN /\ ret' = Outcome("connect", n, 0, "Cannot connect when state is")
            /\ UNCHANGED node
       ELSE /\ WithinBounds(connect(node[n], "clientId"))
            /\ node' = [node EXCEPT ![n] = connect(@, "clientId")]
            /\ ret' = Outcome("connect", n, 0, "none")
    /\ UNCHANGED Rest

\* The methods of the REST API whose URL carries this.sessionId
SessionMethods == {"getPlayer", "updatePlayer", "destroyPlayer", "updateSession"}

\* The request the method hands to the HTTP client: every method sends one,
\* with this.sessionId in its URL ("null" for a null session id)
sessionRequest(r, method) == [sent |-> TRUE, session |-> r.sessionId]

\* getPlayer, updatePlayer, destroyPlayer, updateSession: the request is sent
SessionRest(n, method) ==
    /\ Exists(n)
    /\ ret' = Outcome(method, n, sessionRequest(node[n], method), "none")
    /\ UNCHANGED <<node, registry, clientId, calc, initialized, players, player>>

NodeOptions == {o \in NodeOptionSets : o.name = "a"}

MaxTracked == 1         \* Node objects of a behaviour of SpecNode

Constructed == {n \in NodeIds : Exists(n)}

\* The registry: nodes are added, removed and replaced under the same name
\* while their sockets open and close
Next ==
    \/ ManagerInit
    \/ \E options \in NodeOptionSets : AddNode(options)
    \/ \E n \in NodeIds : AddNodeResolve(n)
    \/ \E n \in NodeIds, error \in WaitErrors : AddNodeReject(n, error)
    \/ \E name \in Names : RemoveNode(name)
    \/ \E n \in NodeIds : SocketOpen(n, "ws")
    \/ \E n \in NodeIds : SocketClosing(n, "ws")
    \/ \E n \in NodeIds, from \in LiveStates, code \in CloseCodes :
          SocketClose(n, "ws", from, code)
    \/ \E n \in NodeIds, stats \in StatsEvents : StatsEvent(n, stats)
    \/ \E n \in NodeIds : ReconnectTimer(n, "tracked")

Spec == Init /\ [][Next]_vars

\* The selection: getBestNode and Manager.create over registries whose nodes
\* connect, receive stats and close
NextSel ==
    \/ ManagerInit
    \/ \E options \in NodeOptionSets : AddNode(options)
    \/ \E n \in NodeIds : AddNodeResolve(n)
    \/ \E voiceRegion \in Hints : GetBestNode(voiceRegion)
    \/ \E calculator \in Calculators : SetPenaltyCalculator(calculator)
    \/ ResetPenaltyCalculator
    \/ \E guildId \in Guilds : Create(guildId)
    \/ \E n \in NodeIds : SocketOpen(n, "ws")
    \/ \E n \in NodeIds : SocketClosing(n, "ws")
    \/ \E n \in NodeIds, from \in LiveStates, code \in CloseCodes :
          SocketClose(n, "ws", from, code)
    \/ \E n \in NodeIds, stats \in StatsEvents : StatsEvent(n, stats)

SpecSel == Init /\ [][NextSel]_vars

\* One connection with every event of its life: sockets, heartbeat, reconnect
\* timers, the promises of waitForConnection, and the calls that disconnect it
NextNode ==
    \/ ManagerInit
    \/ \E options \in NodeOptions :
          Cardinality(Constructed) < MaxTracked /\ AddNode(options)
    \/ \E n \in NodeIds : AddNodeResolve(n)
    \/ \E n \in NodeIds, error \in WaitErrors : AddNodeReject(n, error)
    \/ \E name \in Names : RemoveNode(name)
    \/ DisconnectAll
    \/ DestroyAll
    \/ \E n \in NodeIds, which \in Sockets : SocketOpen(n, which)
    \/ \E n \in NodeIds, which \in Sockets : SocketClosing(n, which)
    \/ \E n \in NodeIds, which \in Sockets, from \in LiveStates, code \in CloseCodes :
          SocketClose(n, which, from, code)
    \/ \E n \in NodeIds, sessionId \in SessionIds, wasResumed \in BOOLEAN :
          ReadyEvent(n, sessionId, wasResumed)
    \/ \E n \in NodeIds : PlayerUpdateEvent(n)
    \/ \E n \in NodeIds : HeartbeatTimeoutPasses(n)
    \/ \E n \in NodeIds : HeartbeatTick(n)
    \/ \E n \in NodeIds, which \in {"tracked", "orphan"} : ReconnectTimer(n, which)
    \/ \E n \in NodeIds : ReconnectResolve(n)
    \/ \E n \in NodeIds, error \in WaitErrors : ReconnectReject(n, error)
    \/ \E n \in NodeIds, method \in SessionMethods : SessionRest(n, method)

SpecNode == Init /\ [][NextNode]_vars

\* The options of a node that may reconnect three times, its delays reaching
\* the cap
ConnOptions ==
    { [name |-> "a", region |-> NoRegion, maxReconnectAttempts |-> 3,
       reconnectDelay |-> 20000] }

\* One connection that its owner connects again, closes and reconnects up to
\* the cap of the backoff
NextConn ==
    \/ ManagerInit
    \/ \E options \in ConnOptions :
          Cardinality(Constructed) < MaxTracked /\ AddNode(options)
    \/ \E n \in NodeIds : AddNodeResolve(n)
    \/ \E n \in NodeIds, error \in WaitErrors : AddNodeReject(n, error)
    \/ \E n \in NodeIds : Connect(n)
    \/ \E n \in NodeIds, which \in Sockets : SocketOpen(n, which)
    \/ \E n \in NodeIds, which \in Sockets : SocketClosing(n, which)
    \/ \E n \in NodeIds, which \in Sockets, from \in LiveStates, code \in CloseCodes :
          SocketClose(n, which, from, code)
    \/ \E n \in NodeIds, sessionId \in SessionIds, wasResumed \in BOOLEAN :
          ReadyEvent(n, sessionId, wasResumed)
    \/ \E n \in NodeIds, which \in {"tracked", "orphan"} : ReconnectTimer(n, which)
    \/ \E n \in NodeIds : ReconnectResolve(n)
    \/ \E n \in NodeIds, error \in WaitErrors : ReconnectReject(n, error)

SpecConn == Init /\ [][NextConn]_vars

----------------------------------------------------------------------------
\* The calls and events of the player

MaxInFlight == 2        \* updatePlayer requests in flight in SpecPlayer
MaxPending == 1         \* updatePlayer requests in flight in SpecControls
MaxQueue == 2           \* tracks in the queue

\* The positions and volumes the callers pass
SeekInputs == {-1, 0, 1000, 2000, 2001}
VolumeInputs == {-1, 0, 50, 100, 101}

\* What the turn that ends with the record p has emitted and returned
Emitted(p) == SubSeq(p.out, Len(player.out) + 1, Len(p.out))

\* A method of the player reaches its await, or throws, with the record p;
\* res of the outcome is 0 for a call and 1 for the settling of its request
PlayerStep(p, op, arg) ==
    /\ player' = [p EXCEPT !.err = "none", !.out = Emitted(p)]
    /\ ret' = Outcome(op, arg, 0, p.err)
    /\ UNCHANGED <<node, registry, clientId, calc, initialized, players>>

PlayOrStopInFlight(p) ==
    \E i \in 1..Len(p.calls) : p.calls[i].op \in {"play", "stop"}

\* The history of a play or stop call that sent its request, track being the
\* current track the call asks for
Called(p, track) ==
    [p EXCEPT !.want = IF player.want = Absent /\ PlayOrStopInFlight(player)
                       THEN Absent ELSE track,
              !.overlap = IF ~PlayOrStopInFlight(player) THEN 1
                          ELSE IF @ < 3 THEN @ + 1 ELSE @]

Play(track) ==
    LET p == play(player, track)
    IN PlayerStep(IF p.err = "none" THEN Called(p, p.track) ELSE p, "play", track)

Pause(flag) == PlayerStep(pause(player, flag), "pause", IF flag THEN 1 ELSE 0)

Stop == PlayerStep(Called(stop(player), NoTrack), "stop", 0)

Seek(position) == PlayerStep(seek(player, position), "seek", position)

SetVolume(volume) == PlayerStep(setVolume(player, volume), "setVolume", volume)

\* addTrack(track)
AddTrack(track) ==
    /\ Len(player.queue) < MaxQueue
    /\ PlayerStep([player EXCEPT !.queue = Append(@, track)], "addTrack", track)

\* positionUpdateInterval fires
PositionTick ==
    /\ player.timer
    /\ PlayerStep(positionUpdate(player), "positionUpdate", 0)

RemoveAt(seq, i) == SubSeq(seq, 1, i - 1) \o SubSeq(seq, i + 1, Len(seq))

\* The request of the i-th call in flight succeeds: its method runs on
RestResolve(i) ==
    /\ i \in 1..Len(player.calls)
    /\ player.calls[i].op # "search"
    /\ LET p == resumed([player EXCEPT !.calls = RemoveAt(@, i)], player.calls[i], NoResult)
       IN player' = [p EXCEPT !.out = Emitted(p)]
    /\ ret' = Outcome(player.calls[i].op, player.calls[i].arg, 1, "none")
    /\ UNCHANGED <<node, registry, clientId, calc, initialized, players>>

\* The search of the i-th call in flight gives result
SearchResult(i, result) ==
    /\ i \in 1..Len(player.calls)
    /\ player.calls[i].op = "search"
    /\ LET p == resumed([player EXCEPT !.calls = RemoveAt(@, i)], player.calls[i], result)
       IN player' = [p EXCEPT !.out = Emitted(p)]
    /\ ret' = Outcome(player.calls[i].op, player.calls[i].arg, 1, "none")
    /\ UNCHANGED <<node, registry, clientId, calc, initialized, players>>

\* The search of the i-th call in flight gives the one track found, or
\* nothing
SearchResolve(i, found) == SearchResult(i, Single(found))

\* The owner of the player calls execute of its AutoPlay engine
Execute(previousTrack, up) ==
    PlayerStep(execute(player, previousTrack, up, Direct), "execute", previousTrack)

\* The request of the i-th call in flight fails: its method rejects
RestReject(i) ==
    /\ i \in 1..Len(player.calls)
    /\ LET p == failed([player EXCEPT
                           !.calls = RemoveAt(@, i),
                           !.want = IF player.calls[i].op \in {"play", "stop"}
                                    THEN Absent ELSE @],
                       player.calls[i])
       IN /\ player' = [p EXCEPT !.err = "none", !.out = Emitted(p)]
          /\ ret' = Outcome(player.calls[i].op, player.calls[i].arg, 1, p.err)
    /\ UNCHANGED <<node, registry, clientId, calc, initialized, players>>

\* A TrackEndEvent of the guild reaches the Manager
TrackEnd(reason, up) ==
    PlayerStep(handleTrackEnd(player, reason, up), "handleTrackEnd", reason)

SetLoopMode(mode) == PlayerStep(setLoopMode(player, mode), "setLoopMode", mode)

Skip == PlayerStep(skip(player), "skip", 0)

Previous == PlayerStep(previous(player), "previous", 0)

\* The VoiceForwarder passes a fragment of the voice state on
UpdateVoiceState(state) ==
    PlayerStep(updateVoiceState(player, state), "updateVoiceState", state)

\* A PlayerUpdateEvent of the guild reaches the Manager
PlayerUpdate(position, connected) ==
    PlayerStep(updateState(player, position, connected), "updateState", position)

Destroy == PlayerStep(destroy(player), "destroy", 0)

SaveQueue == PlayerStep(saveQueue(player), "saveQueue", 0)

\* The queue, loop mode, volume, current track and paused flag of a player
Kept(p) == <<p.queue, p.loopMode, p.volume, p.track, p.paused>>

\* The parsed text of a restoreQueue that has sent its first request, with
\* what the player was like before the call
Remembering(saved, kept) ==
    [queue |-> saved.queue, currentTrack |-> saved.currentTrack,
     position |-> saved.position, volume |-> saved.volume,
     loopMode |-> saved.loopMode, paused |-> saved.paused, before |-> kept]

RestoreQueue(data) ==
    LET p == restoreQueue(player, data)
    IN PlayerStep(IF p.err # "none" THEN p
                  ELSE [p EXCEPT !.calls[Len(p.calls)].saved =
                                     Remembering(@, Kept(player))],
                  "restoreQueue", data.kind)

\* The frame of a play request that replaces the track old, which was
\* playing when the request was sent
Replaces(old) == [kind |-> "replaces", old |-> old]

\* A call that replaces the playing track reaches its await with the record
\* p: the frame of its play request keeps the track it replaces
Replace(p, op, arg) ==
    PlayerStep(IF /\ player.track # NoTrack /\ player.timer
                  /\ Len(p.calls) > Len(player.calls)
                  /\ p.calls[Len(p.calls)].op = "play"
               THEN [p EXCEPT !.calls[Len(p.calls)].saved = Replaces(player.track)]
               ELSE p,
               op, arg)

PlayOver(track) ==
    LET p == play(player, track)
    IN Replace(IF p.err = "none" THEN Called(p, p.track) ELSE p, "play", track)

SkipOver == Replace(skip(player), "skip", 0)

PreviousOver == Replace(previous(player), "previous", 0)

\* A player whose play, stop and pause calls overlap
NextPlayer ==
    \/ \E track \in Tracks \cup {NoTrack} :
          Len(player.calls) < MaxInFlight /\ Play(track)
    \/ \E flag \in BOOLEAN : Len(player.calls) < MaxInFlight /\ Pause(flag)
    \/ Len(player.calls) < MaxInFlight /\ Stop
    \/ \E track \in Tracks : AddTrack(track)
    \/ PositionTick
    \/ \E i \in 1..MaxInFlight : RestResolve(i)
    \/ \E i \in 1..MaxInFlight : RestReject(i)

SpecPlayer == Init /\ [][NextPlayer]_vars

\* A player whose calls are made one after the other, with every control
NextControls ==
    \/ \E track \in Tracks : Len(player.calls) < MaxPending /\ Play(track)
    \/ \E flag \in BOOLEAN : Len(player.calls) < MaxPending /\ Pause(flag)
    \/ Len(player.calls) < MaxPending /\ Stop
    \/ \E position \in SeekInputs : Len(player.calls) < MaxPending /\ Seek(position)
    \/ \E volume \in VolumeInputs : Len(player.calls) < MaxPending /\ SetVolume(volume)
    \/ PositionTick
    \/ \E i \in 1..MaxPending : RestResolve(i)
    \/ \E i \in 1..MaxPending : RestReject(i)

SpecControls == Init /\ [][NextControls]_vars

MaxEnded == 2           \* tracks recorded in the history in SpecLoop and SpecSession

Idle == player.calls = <<>>

\* A player over a queue of three songs, under every loop mode and every
\* reason of a track end, one request at a time
NextLoop ==
    \/ \E track \in Songs : Idle /\ Play(track)
    \/ \E track \in Songs : Idle /\ AddTrack(track)
    \/ \E mode \in LoopModes : Idle /\ SetLoopMode(mode)
    \/ \E reason \in Reasons, up \in BOOLEAN :
          Idle /\ Len(player.history) < MaxEnded /\ TrackEnd(reason, up)
    \/ RestResolve(1)
    \/ RestReject(1)
    \/ \E found \in Songs \cup {NoTrack} : SearchResolve(1, found)

SpecLoop == Init /\ [][NextLoop]_vars

\* A player whose queue runs empty, with tracks added and played while
\* AutoPlay searches
NextAutoPlay ==
    \/ \E track \in Tracks : Len(player.calls) < MaxInFlight /\ Play(track)
    \/ \E track \in Tracks : AddTrack(track)
    \/ \E reason \in Reasons, up \in BOOLEAN :
          Idle /\ Len(player.history) < MaxEnded /\ TrackEnd(reason, up)
    \/ \E i \in 1..MaxInFlight : RestResolve(i)
    \/ \E i \in 1..MaxInFlight : RestReject(i)
    \/ \E i \in 1..MaxInFlight, found \in Tracks \cup {NoTrack} : SearchResolve(i, found)

SpecAutoPlay == Init /\ [][NextAutoPlay]_vars

MaxMarked == 1          \* times track 2 is in the history in SpecHistory

\* The reasons of the track ends of SpecHistory
Interruptions == {"stopped", "replaced"}

\* A player that plays track after track, until the history and
\* previousTracks are full and beyond; track 2 is played seldom enough to be
\* in the history at most once
NextHistory ==
    \/ \E track \in Tracks :
          /\ Idle
          /\ track = 2 => Cardinality({i \in 1..Len(player.history) :
                                          player.history[i] = 2}) < MaxMarked
          /\ Play(track)
    \/ \E reason \in Interruptions : Idle /\ TrackEnd(reason, TRUE)
    \/ RestResolve(1)
    \/ RestReject(1)

SpecHistory == Init /\ [][NextHistory]_vars

\* The texts an earlier session saved: track 1 current, track 2 queued, and
\* nothing current, tracks 1 and 2 queued
SavedTexts ==
    {stringify([NewPlayer EXCEPT !.track = 1, !.queue = <<2>>]),
     stringify([NewPlayer EXCEPT !.queue = <<1, 2>>, !.loopMode = "queue"])}

\* The track is the current track or in the queue
Holds(track) ==
    track = player.track \/ \E i \in 1..Len(player.queue) : player.queue[i] = track

\* A session under every command that moves tracks between the current
\* track, the queue and previousTracks, one request at a time.  The caller
\* hands the session no track it holds already: it plays and adds tracks that
\* are neither current nor queued, and restores a saved text into a session
\* without tracks.
NextSession ==
    \/ \E track \in Tracks : Idle /\ ~Holds(track) /\ Play(track)
    \/ \E track \in Tracks : Idle /\ ~Holds(track) /\ AddTrack(track)
    \/ \E mode \in LoopModes : Idle /\ SetLoopMode(mode)
    \/ Idle /\ Skip
    \/ Idle /\ Len(player.queue) < MaxQueue /\ Previous
    \/ \E data \in SavedTexts :
          Idle /\ (\A track \in Tracks : ~Holds(track)) /\ RestoreQueue(data)
    \/ \E reason \in Reasons, up \in BOOLEAN :
          Idle /\ Len(player.history) < MaxEnded /\ TrackEnd(reason, up)
    \/ RestResolve(1)
    \/ RestReject(1)
    \/ \E found \in Tracks \cup {NoTrack} : SearchResolve(1, found)

SpecSession == Init /\ [][NextSession]_vars

\* A player that is handed the fragments of the voice state in every order,
\* up to two of its requests in flight
NextVoice ==
    \/ \E state \in Fragments :
          Len(player.calls) < MaxInFlight /\ UpdateVoiceState(state)
    \/ \E connected \in BOOLEAN : PlayerUpdate(0, connected)
    \/ \E i \in 1..MaxInFlight : RestResolve(i)
    \/ \E i \in 1..MaxInFlight : RestReject(i)

SpecVoice == Init /\ [][NextVoice]_vars

\* The texts the caller passes to restoreQueue: one that is not JSON, the
\* text it kept from saveQueue, and that text with a volume out of range
RestoreInputs ==
    {Garbage} \cup (IF player.text = NoText THEN {}
                    ELSE {player.text, OutOfRange(player.text)})

\* A session that is saved and restored between other commands, one request
\* at a time
NextRestore ==
    \/ \E track \in Tracks : Idle /\ Play(track)
    \/ \E track \in Tracks : Idle /\ AddTrack(track)
    \/ \E mode \in LoopModes : Idle /\ SetLoopMode(mode)
    \/ \E volume \in {0, 50} : Idle /\ SetVolume(volume)
    \/ Idle /\ Pause(TRUE)
    \/ Idle /\ SaveQueue
    \/ \E data \in RestoreInputs : Idle /\ RestoreQueue(data)
    \/ RestResolve(1)
    \/ RestReject(1)

SpecRestore == Init /\ [][NextRestore]_vars

\* A player that is played, paused, stopped and destroyed while its requests
\* are in flight and its tracks end; no command is given to a player that
\* was destroyed
NextTimer ==
    \/ \E track \in Tracks :
          ~player.destroyed /\ Len(player.calls) < MaxInFlight /\ Play(track)
    \/ \E flag \in BOOLEAN :
          ~player.destroyed /\ Len(player.calls) < MaxInFlight /\ Pause(flag)
    \/ ~player.destroyed /\ Len(player.calls) < MaxInFlight /\ Stop
    \/ ~player.destroyed /\ Len(player.calls) < MaxInFlight /\ Destroy
    \/ \E reason \in Reasons, up \in BOOLEAN :
          /\ Len(player.calls) < MaxInFlight
          /\ Len(player.history) < MaxEnded
          /\ TrackEnd(reason, up)
    \/ PositionTick
    \/ \E i \in 1..MaxInFlight : RestResolve(i)
    \/ \E i \in 1..MaxInFlight : RestReject(i)
    \/ \E i \in 1..MaxInFlight, found \in Tracks \cup {NoTrack} : SearchResolve(i, found)

SpecTimer == Init /\ [][NextTimer]_vars

MaxIdentifier == 52     \* identifiers of the tracks given to execute in SpecDedup

\* The k-th track that is given to execute for the first time: track 2 comes
\* before track 1, the others in the order of their numbers
Nth(k) == IF k = 1 THEN 2 ELSE IF k = 2 THEN 1 ELSE k

\* The track that follows the last one inserted
Fresh(identifiers) ==
    IF identifiers = <<>> THEN Nth(1)
    ELSE Nth(Nth(identifiers[Len(identifiers)]) + 1)

\* The previous tracks execute is called with: none, the next new one, and
\* the oldest and the newest of the set
Ended(identifiers) ==
    {NoTrack}
       \cup {t \in {Fresh(identifiers)} : t <= MaxIdentifier}
       \cup (IF identifiers = <<>> THEN {}
             ELSE {identifiers[1], identifiers[Len(identifiers)]})

\* An AutoPlay engine that is called for one track after the other, with the
\* node connected or not; its search finds nothing or track 1
NextDedup ==
    \/ \E previousTrack \in Ended(player.playedIdentifiers), up \in BOOLEAN :
          Idle /\ Execute(previousTrack, up)
    \/ \E found \in {NoTrack, 1} : SearchResolve(1, found)
    \/ RestResolve(1)
    \/ RestReject(1)

SpecDedup == Init /\ [][NextDedup]_vars

MaxCandidates == 2      \* tracks in the result of a search in SpecStrategy

\* The results of a search: no track for an error or an empty result, one
\* for a track, up to MaxCandidates for a list or a playlist
Results ==
    {r \in [loadType : LoadTypes,
            tracks : UNION {[1..n -> Tracks] : n \in 0..MaxCandidates},
            random : 0..(RandomSteps - 1)] :
        /\ r.loadType \in {"error", "empty"} => Len(r.tracks) = 0
        /\ r.loadType = "track" => Len(r.tracks) = 1}

\* An AutoPlay engine called for tracks of every source, one request at a
\* time, while tracks are added to the queue
NextStrategy ==
    \/ \E previousTrack \in Songs, up \in BOOLEAN : Idle /\ Execute(previousTrack, up)
    \/ \E track \in Songs : AddTrack(track)
    \/ \E result \in Results : SearchResult(1, result)
    \/ RestResolve(1)
    \/ RestReject(1)

SpecStrategy == Init /\ [][NextStrategy]_vars

\* A player whose track is replaced with another by play, skip and previous
\* while it plays, the events of the tracks that ended arriving before or after the
\* answers to the requests
NextReplace ==
    \/ \E track \in Tracks : Idle /\ track # player.track /\ PlayOver(track)
    \/ \E track \in Tracks : AddTrack(track)
    \/ Idle /\ SkipOver
    \/ Idle /\ Len(player.queue) < MaxQueue /\ PreviousOver
    \/ \E reason \in Reasons, up \in BOOLEAN :
          /\ Len(player.calls) < MaxInFlight
          /\ Len(player.history) < MaxEnded
          /\ TrackEnd(reason, up)
    \/ \E i \in 1..MaxInFlight : RestResolve(i)
    \/ \E i \in 1..MaxInFlight : RestReject(i)
    \/ \E i \in 1..MaxInFlight, found \in Tracks \cup {NoTrack} : SearchResolve(i, found)

SpecReplace == Init /\ [][NextReplace]_vars

\* The Manager with one node: the player of a guild is created, played and
\* destroyed while its requests succeed and fail; a player replaces a
\* destroyed one when no request of that one is in flight
NextManager ==
    \/ ManagerInit
    \/ \E options \in NodeOptions : AddNode(options)
    \/ \E n \in NodeIds : SocketOpen(n, "ws")
    \/ \E n \in NodeIds : AddNodeResolve(n)
    \/ \E guildId \in Guilds : (players[guildId] = 0 => Idle) /\ Create(guildId)
    \/ \E track \in Tracks :
          /\ players["g1"] # 0 /\ ~player.destroyed
          /\ Len(player.calls) < MaxInFlight
          /\ Play(track)
    \/ \E guildId \in Guilds : Len(player.calls) < MaxInFlight /\ DestroyPlayer(guildId)
    \/ \E i \in 1..MaxInFlight : ManagerResolve(i)
    \/ \E i \in 1..MaxInFlight : RestReject(i)

SpecManager == Init /\ [][NextManager]_vars

\* The oldest request in flight is answered or fails (the HTTP client times
\* out), so every request is
Settles == ManagerResolve(1) \/ RestReject(1)

SpecManagerFair == SpecManager /\ WF_vars(Settles)

----------------------------------------------------------------------------
\* What the claims speak of, stated without the operators of the code

Registered == {registry[i] : i \in 1..Len(registry)}

Position(n) == CHOOSE i \in 1..Len(registry) : registry[i] = n

Connected == {n \in Registered : node[n].state = "CONNECTED" /\ node[n].ws = "OPEN"}

\* A penalty of Infinity: not connected, or connected without stats so far
Unscored(n) ==
    \/ ~(node[n].state = "CONNECTED" /\ node[n].ws = "OPEN")
    \/ node[n].stats.null

Lower == [c \in {"U", "S", "W", "E"} |->
             CASE c = "U" -> "u" [] c = "S" -> "s" [] c = "W" -> "w" [] c = "E" -> "e"]

\* Lower case, with every '-' and '_' dropped
Canonical(str) ==
    LET kept == SelectSeq(str, LAMBDA c : c # "-" /\ c # "_")
    IN [i \in 1..Len(kept) |-> IF kept[i] \in DOMAIN Lower THEN Lower[kept[i]] ELSE kept[i]]

Substring(part, whole) ==
    \/ part = <<>>
    \/ \E i \in 1..Len(whole), j \in 1..Len(whole) : SubSeq(whole, i, j) = part

RegionMatches(region, hint) ==
    \/ Substring(Canonical(hint), Canonical(region))
    \/ Substring(Canonical(region), Canonical(hint))

\* The connected nodes with a configured region that matches the hint
Matching(hint) ==
    {n \in Connected : node[n].region # <<>> /\ RegionMatches(node[n].region, hint)}

\* The candidate set of a selection: the matching nodes if a hint is given and
\* any node matches, else all connected nodes
Candidates(hint) ==
    IF hint # <<>> /\ Matching(hint) # {} THEN Matching(hint) ELSE Connected

Selected == ret.op = "getBestNode" /\ ret.res # 0

\* The penalty of a node under the scorer that is active
ActiveScore(n) ==
    IF calc = "null" THEN getPenalty(node[n]) ELSE customPenalty(calc, node[n])

----------------------------------------------------------------------------
\* C1 as stated: with the built-in scorer getBestNode never returns a node of
\* penalty Infinity (not connected, or connected without stats) while some
\* registered connected node has a finite penalty, whatever the region hint.
C1_AnyConnectedAlternative ==
    (Selected /\ calc = "null" /\ Unscored(ret.res))
        => ~\E m \in Connected : ~Unscored(m) /\ getPenalty(node[m]) < Infinity

\* C1 as amended: with the built-in scorer getBestNode never returns a node of
\* penalty Infinity while some node of its candidate set (the connected nodes
\* matching the hint if any matches, else all connected nodes) has a finite
\* penalty.
C1_NoInfinityAmongCandidates ==
    (Selected /\ calc = "null" /\ Unscored(ret.res))
        => ~\E m \in Candidates(ret.arg) : ~Unscored(m) /\ getPenalty(node[m]) < Infinity

\* The scan passed over an earlier candidate without stats for a scored one
C1_Witness ==
    /\ Selected /\ calc = "null"
    /\ ~Unscored(ret.res)
    /\ \E m \in Candidates(ret.arg) : Unscored(m) /\ Position(m) < Position(ret.res)

C3_RegionalSubsetOrAll ==
    Selected =>
        IF ret.arg # <<>> /\ Matching(ret.arg) # {}
        THEN ret.res \in Matching(ret.arg)
        ELSE ret.res \in Connected

\* A hint that contains the node's region: the matching node is returned
\* although a connected node outside the region has a lower penalty
C3_Witness ==
    /\ Selected /\ ret.arg = HintUsWest
    /\ ret.res \in Matching(ret.arg)
    /\ \E m \in Connected \ Matching(ret.arg) : ActiveScore(m) < ActiveScore(ret.res)

\* C4: while no registered node is connected, getBestNode fails for every
\* hint, and Manager.create for a guild without a player fails and registers
\* no player.
C4_NoConnectedNodes ==
    /\ (ret.op = "getBestNode" /\ Connected = {}) => ret.res = 0
    /\ (ret.op = "create" /\ Connected = {}) =>
          /\ ret.res # "created"
          /\ players[ret.arg] # 0 => ret.res = "existing"

\* create fails with the registry holding only a node that is reconnecting
C4_Witness ==
    /\ ret.op = "create" /\ ret.res = "No connected nodes available"
    /\ Registered # {} /\ Connected = {}
    /\ \E n \in Registered : node[n].state = "RECONNECTING"
    /\ players[ret.arg] = 0

\* No reconnect timer and no heartbeat interval of the node is pending
NoTimers(n) ==
    /\ ~node[n].rtPending /\ node[n].rtOrphans = 0
    /\ ~node[n].hbRunning /\ node[n].hbOrphans = 0

\* C5: names in the registry are unique; addNode with a registered name, also
\* one whose first addNode still awaits its connect, is rejected with an
\* error, constructs no node and leaves the registry and every node as they
\* were.
C5_DuplicateNameRejected ==
    [][/\ \A i, j \in 1..Len(registry') :
             i # j => node'[registry'[i]].name # node'[registry'[j]].name
       /\ \A options \in NodeOptionSets :
             (AddNode(options) /\ \E n \in Registered : node[n].name = options.name)
                 => /\ ret'.res = "exists"
                    /\ node' = node
                    /\ registry' = registry]_vars

\* addNode was rejected for a name whose first addNode still awaits its connect
C5_Witness ==
    /\ ret.op = "addNode" /\ ret.res = "exists"
    /\ \E n \in Registered : node[n].name = ret.arg /\ node[n].addWait

\* C6: when the connect of an addNode fails, addNode rejects, the registry
\* holds no entry for the failed node, and the entry it removed, if any, is
\* the one this addNode registered.
C6_FailedAddRemovesOnlyItsEntry ==
    ret.op = "addNodeRejected" =>
        /\ ret.arg \notin Registered
        /\ ret.res \in {0, ret.arg}

\* C7: after disconnectAll (resetInstance, Manager.destroyAll) the registry is
\* empty, every former member is DISCONNECTED with no reconnect timer and no
\* heartbeat interval pending, and no former member reconnects afterwards.
C7_DisconnectAllIsFinal ==
    /\ ret.op \in {"disconnectAll", "destroyAll"} => registry = <<>>
    /\ \A n \in NodeIds :
          (Exists(n) /\ node[n].disc = "disconnectAll")
              => node[n].state = "DISCONNECTED" /\ NoTimers(n)

\* C8: after disconnect() the connection is DISCONNECTED with no reconnect
\* timer and no heartbeat interval pending, and it stays so in every
\* interleaving, also when disconnect() was called while a reconnect attempt
\* awaited the outcome of its connect.
C8_DisconnectIsFinal ==
    \A n \in NodeIds :
        (Exists(n) /\ node[n].disc # "no")
            => /\ node[n].state = "DISCONNECTED"
               /\ ~node[n].rtPending /\ node[n].rtOrphans = 0
               /\ ~node[n].hbRunning /\ node[n].hbOrphans = 0

\* C9: once scheduleReconnect has found the reconnect attempts exhausted (and
\* passed the error to the error handler), no reconnect timer is pending and
\* the connection is and stays DISCONNECTED, never CONNECTING or RECONNECTING.
C9_ExhaustedStaysDisconnected ==
    \A n \in NodeIds :
        (Exists(n) /\ node[n].gaveUp)
            => /\ node[n].state = "DISCONNECTED"
               /\ ~node[n].rtPending /\ node[n].rtOrphans = 0

\* C10: a close with a code other than 1000 while attempts remain puts the
\* connection into RECONNECTING with a reconnect timer pending; when the
\* reconnect timer of a RECONNECTING connection fires, a connection attempt
\* starts (CONNECTING), also when no ready event has delivered a session id;
\* a close with code 1000 leaves the connection DISCONNECTED.
C10_CloseLeadsToReconnect ==
    [][\A n \in NodeIds :
         /\ \A which \in Sockets, from \in LiveStates, code \in CloseCodes :
               SocketClose(n, which, from, code) =>
                  IF code = NormalClosure
                  THEN node'[n].state = "DISCONNECTED"
                  ELSE (node[n].maxReconnectAttempts # 0
                          /\ node[n].attempt < node[n].maxReconnectAttempts)
                       => (node'[n].state = "RECONNECTING" /\ node'[n].rtPending)
         /\ \A which \in {"tracked", "orphan"} :
               (ReconnectTimer(n, which) /\ node[n].state = "RECONNECTING")
                  => node'[n].state = "CONNECTING"]_vars

\* base x 2^attempt, capped at the maximum delay
JitterFreeDelay(base, attempt) ==
    LET d == base * (2 ^ attempt) IN IF d > 60000 THEN 60000 ELSE d

\* The running handler of node n has set a reconnect timer in this step
ScheduledIn(n) == ret'.op = "event" /\ ret'.arg = n /\ ret'.res > 0

\* C11: every 'open' of a socket of the node resets the attempt counter; every
\* scheduled reconnect raises it by one and its delay is base x 2^attempt
\* (attempt counted before the step) capped at the maximum, hence not below
\* the delay scheduled before it since the last open, and the base delay for
\* the first reconnect scheduled after an open; nothing else changes the
\* counter.
C11_DelayGrowsAndResets ==
    [][\A n \in NodeIds :
         Exists(n) =>
            /\ (\E which \in Sockets : SocketOpen(n, which)) => node'[n].attempt = 0
            /\ ScheduledIn(n) =>
                  /\ node'[n].attempt = node[n].attempt + 1
                  /\ ret'.res = JitterFreeDelay(node[n].reconnectDelay, node[n].attempt)
                  /\ ret'.res >= node[n].lastDelay
                  /\ node[n].lastDelay = 0 => ret'.res = node[n].reconnectDelay
            /\ (~ScheduledIn(n) /\ ~\E which \in Sockets : SocketOpen(n, which))
                  => node'[n].attempt = node[n].attempt]_vars

\* The third reconnect since the last open is scheduled with the capped delay
C11_Witness ==
    /\ ret.op = "event" /\ ret.res = 60000
    /\ node[ret.arg].attempt = 3
    /\ node[ret.arg].reconnectDelay = 20000

\* C12: a session-bound REST method called while the connection is not
\* CONNECTED, or while its session id is null or was delivered before the last
\* close or disconnect, fails with an error and sends no request.
C12_NoStaleSessionRequest ==
    (/\ ret.op \in {"getPlayer", "updatePlayer", "destroyPlayer", "updateSession"}
     /\ \/ node[ret.arg].state # "CONNECTED"
        \/ node[ret.arg].sessionId = 0
        \/ node[ret.arg].sessionStale)
        => (ret.err # "none" /\ ~ret.res.sent)

C14_DocumentedEdges ==
    [][\A n \in NodeIds :
         Exists(n) =>
            /\ (node'[n].state = "CONNECTED" /\ node[n].state # "CONNECTED")
                   => node[n].state = "CONNECTING"
            /\ (node'[n].state = "CONNECTING" /\ node[n].state # "CONNECTING")
                   => node[n].state \in {"DISCONNECTED", "RECONNECTING"}
            /\ (node'[n].state = "RECONNECTING" /\ node[n].state # "RECONNECTING")
                   => \/ \E which \in Sockets, from \in LiveStates, code \in CloseCodes :
                            SocketClose(n, which, from, code)
                      \/ \E error \in WaitErrors : ReconnectReject(n, error)
                      \/ \E which \in {"tracked", "orphan"} : ReconnectTimer(n, which)
            /\ (Connect(n) /\ node[n].state \in {"CONNECTING", "CONNECTED"})
                   => (ret'.err # "none" /\ node' = node)]_vars

\* The request sent last
LastCall(p) == p.calls[Len(p.calls)]

\* C15: play() without a track on an empty queue throws the empty-queue
\* error, sends no request and leaves the player (current track, queue,
\* position, timer) as it was; on a non-empty queue it removes exactly the
\* head of the queue and sends the request that plays it.
C15_PlayFromQueue ==
    [][(ret'.op = "play" /\ ret'.res = 0 /\ ret'.arg = 0) =>
          IF player.queue = <<>>
          THEN /\ ret'.err = "No track provided and queue is empty"
               /\ player' = player
          ELSE /\ ret'.err = "none"
               /\ player'.queue = Tail(player.queue)
               /\ Len(player'.calls) = Len(player.calls) + 1
               /\ LastCall(player').payload.encodedTrack = Head(player.queue)]_vars

\* play() has taken the first of two queued tracks
C15_Witness ==
    /\ ret.op = "play" /\ ret.res = 0 /\ ret.arg = 0 /\ ret.err = "none"
    /\ player.queue = <<2>>
    /\ LastCall(player).payload.encodedTrack = 1

\* C16: play() leaves the current track as it is until its request has
\* succeeded: neither the call up to its await nor the failure of its request
\* changes the current track, and on the failure play() rejects.
C16_TrackSetOnCompletion ==
    [][/\ (ret'.op = "play" /\ ret'.res = 0) => player'.track = player.track
       /\ (ret'.op = "play" /\ ret'.res = 1 /\ ret'.err # "none")
             => player'.track = player.track]_vars

\* C17: when two calls of play and stop were made while both requests were in
\* flight (play then stop, stop then play), and both requests have succeeded
\* in either order, the current track is the one the two calls give in the
\* order they were made: none after play; stop, the played track after stop;
\* play.
C17_IssueOrderDecides ==
    (/\ \A i \in 1..Len(player.calls) : player.calls[i].op \notin {"play", "stop"}
     /\ player.overlap = 2
     /\ player.want # -1)
        => player.track = player.want

\* C18: seek(p) without a current track throws and sends no request; with a
\* current track of length L it throws the out-of-bounds error, sends no
\* request and leaves the position for p < 0 and for p > L, and for every
\* other p, 0 and L among them, it sends the position p; when that request
\* has succeeded the local position is p.
C18_SeekBounds ==
    [][/\ (ret'.op = "seek" /\ ret'.res = 0) =>
             IF player.track = 0
             THEN ret'.err # "none" /\ player' = player
             ELSE IF ret'.arg < 0 \/ ret'.arg > TrackLength(player.track)
             THEN ret'.err = "Position out of bounds" /\ player' = player
             ELSE /\ ret'.err = "none"
                  /\ Len(player'.calls) = Len(player.calls) + 1
                  /\ LastCall(player').payload.position = ret'.arg
                  /\ player'.position = player.position
       /\ (ret'.op = "seek" /\ ret'.res = 1 /\ ret'.err = "none")
             => player'.position = ret'.arg]_vars

\* A seek to the very end of the current track has succeeded
C18_Witness ==
    /\ ret.op = "seek" /\ ret.res = 1 /\ ret.err = "none"
    /\ player.track # 0
    /\ ret.arg = TrackLength(player.track)
    /\ player.position = ret.arg

\* C19: setVolume(v) throws the range error, sends nothing and leaves the
\* local volume for v < 0 and for v > 100; for every other v the request it
\* sends carries the volume 10 v, and when that request has succeeded the
\* local volume is v.
C19_VolumeScaled ==
    [][/\ (ret'.op = "setVolume" /\ ret'.res = 0) =>
             IF ret'.arg < 0 \/ ret'.arg > 100
             THEN ret'.err = "Volume must be between 0 and 100" /\ player' = player
             ELSE /\ ret'.err = "none"
                  /\ Len(player'.calls) = Len(player.calls) + 1
                  /\ LastCall(player').payload.volume = 10 * ret'.arg
                  /\ player'.volume = player.volume
       /\ (ret'.op = "setVolume" /\ ret'.res = 1 /\ ret'.err = "none")
             => player'.volume = ret'.arg]_vars

\* setVolume(50) has sent the volume 500
C19_Witness ==
    /\ ret.op = "setVolume" /\ ret.res = 0 /\ ret.arg = 50
    /\ LastCall(player).payload.volume = 500

\* The paused flag, current track, position and volume of a player
Locals(p) == <<p.paused, p.track, p.position, p.volume>>

\* C20: pause, stop, seek and setVolume change the paused flag, the current
\* track, the position and the volume neither before their request has
\* completed nor when it fails: after a failed request, on which the call
\* rejects, the four are as before the call.
C20_FailedUpdateChangesNothing ==
    [][(/\ ret'.op \in {"pause", "stop", "seek", "setVolume"}
        /\ (ret'.res = 0 \/ ret'.err # "none"))
          => Locals(player') = Locals(player)]_vars

\* The request of pause(true) has failed and the player is not paused
C20_Witness ==
    /\ ret.op = "pause" /\ ret.res = 1 /\ ret.arg = 1 /\ ret.err = "Request failed"
    /\ ~player.paused
----------------------------------------------------------------------------
\* Track ends

\* A turn of handleTrackEnd for the reason, with a current track
Ends(reason) ==
    ret'.op = "handleTrackEnd" /\ ret'.arg = reason /\ player.track # NoTrack

\* The turn has sent the request that plays the track
Starts(track) ==
    /\ Len(player'.calls) = Len(player.calls) + 1
    /\ LastCall(player').payload.encodedTrack = track
    /\ player'.track = track

\* C21: when a track ends with the reason finished, under the track loop it
\* is played again, staying the current track with the queue as it was, and
\* under the queue loop it is put at the tail of the queue before the head of
\* the queue is played; without a loop the head of the queue as it was is
\* played, if there is one.  When it ends for any other reason, whatever the
\* loop mode, no track is current afterwards, the queue is as it was and no
\* request is sent.
C21_LoopOnlyWhenFinished ==
    [][/\ (Ends("finished") /\ player.loopMode = "track")
             => (Starts(player.track) /\ player'.queue = player.queue)
       /\ (Ends("finished") /\ player.loopMode = "queue")
             => /\ <<player'.track>> \o player'.queue = Append(player.queue, player.track)
                /\ Starts(player'.track)
       /\ (Ends("finished") /\ player.loopMode = "off")
             => IF player.queue = <<>>
                THEN player'.track = NoTrack /\ player'.queue = <<>>
                ELSE /\ <<player'.track>> \o player'.queue = player.queue
                     /\ Starts(player'.track)
       /\ \A reason \in Reasons \ {"finished"} :
             Ends(reason) => /\ player'.track = NoTrack
                             /\ player'.queue = player.queue
                             /\ player'.calls = player.calls]_vars

\* A track that finished under the track loop is played again
C21_Witness ==
    /\ ret.op = "handleTrackEnd" /\ ret.arg = "finished"
    /\ player.loopMode = "track"
    /\ player.track # NoTrack
    /\ player.calls # <<>>
    /\ LastCall(player).caller = "handleTrackEnd"
    /\ LastCall(player).payload.encodedTrack = player.track

\* The number of times the track is in the list
Count(list, track) == Cardinality({i \in 1..Len(list) : list[i] = track})

\* C22: under the queue loop, when the current track A finishes while B and C
\* are queued in that order, B becomes the current track and is the track
\* the request plays, the queue is C, A, and every track is as many times among
\* the current and the queued tracks as it was before.
C22_QueueLoopRotates ==
    [][(Ends("finished") /\ player.loopMode = "queue" /\ Len(player.queue) = 2)
          => /\ Starts(player.queue[1])
             /\ player'.queue = <<player.queue[2], player.track>>
             /\ \A track \in Songs :
                   Count(<<player'.track>> \o player'.queue, track)
                       = Count(<<player.track>> \o player.queue, track)]_vars

\* Track 1 has finished before the queued tracks 2 and 3
C22_Witness ==
    /\ ret.op = "handleTrackEnd" /\ ret.arg = "finished"
    /\ player.loopMode = "queue"
    /\ player.track = 2
    /\ player.queue = <<3, 1>>
    /\ player.history = <<1>>
----------------------------------------------------------------------------
\* AutoPlay

Has(list, entry) == \E i \in 1..Len(list) : list[i] = entry

\* A request of AutoPlay.execute is in flight
InAutoPlay(p) == \E i \in 1..Len(p.calls) : p.calls[i].caller = "execute"

\* A track has finished with nothing queued and AutoPlay enabled
AutoPlayDue ==
    /\ Ends("finished")
    /\ player.loopMode = "off" /\ player.queue = <<>> /\ player.autoPlay

\* AutoPlay gives up in this turn: the node is not connected, so that no
\* search is sent, or the search gives an error, nothing or no candidate, or
\* the search or the play of the candidate throws
AutoPlayFails ==
    \/ AutoPlayDue /\ player'.calls = player.calls
    \/ /\ InAutoPlay(player)
       /\ ~InAutoPlay(player')
       /\ ~Has(player'.out, "AutoPlay added")

\* AutoPlay reports success in this turn
AutoPlaySucceeds ==
    /\ InAutoPlay(player)
    /\ Has(player'.out, "AutoPlay added")

\* C23 as stated: whenever AutoPlay gives up, handleTrackEnd does not reject
\* and queueEnd is emitted; when AutoPlay reports success no queueEnd is
\* emitted.
C23_FailureEmitsQueueEnd ==
    [][/\ AutoPlayFails => /\ ret'.err = "none"
                            /\ ~Has(player'.out, "Error handling track end")
                            /\ Has(player'.out, "queueEnd")
       /\ AutoPlaySucceeds => ~Has(player'.out, "queueEnd")]_vars

\* C23 amended: whenever AutoPlay gives up, handleTrackEnd does not reject,
\* and it emits queueEnd if and only if the queue is empty at that moment;
\* when AutoPlay reports success no queueEnd is emitted.
C23_FailureIsNotFatal ==
    [][/\ AutoPlayFails => /\ ret'.err = "none"
                            /\ ~Has(player'.out, "Error handling track end")
                            /\ Has(player'.out, "queueEnd") <=> player'.queue = <<>>
       /\ AutoPlaySucceeds => ~Has(player'.out, "queueEnd")]_vars

\* The play of the track AutoPlay picked has failed: queueEnd is emitted
C23_Witness ==
    /\ ret.op = "play" /\ ret.res = 1 /\ ret.err = "none"
    /\ player.out = <<"AutoPlay failed", "queueEnd">>
    /\ player.track # NoTrack
    /\ player.queue = <<>>
----------------------------------------------------------------------------
\* History

\* The list after the track was recorded in it: the track is the last entry
\* and, the list having been at its size, its first entry is gone
Recorded(list, track, size) ==
    IF Len(list) < size THEN Append(list, track)
    ELSE Append(SubSeq(list, 2, Len(list)), track)

\* C24: the history never holds more than 50 tracks and previousTracks never
\* more than 10, and a track end records the current track as the last entry
\* of both, the first (oldest) entry being dropped from a list that was at
\* its size and every other entry keeping its order.
C24_CapsEvictOldest ==
    [][/\ Len(player'.history) <= 50
       /\ Len(player'.previousTracks) <= 10
       /\ (ret'.op = "handleTrackEnd" /\ player.track # NoTrack)
             => /\ player'.history = Recorded(player.history, player.track, 50)
                /\ player'.previousTracks
                      = Recorded(player.previousTracks, player.track, 10)]_vars

\* Track 2 ended 50 track ends ago: it is the oldest entry of the full
\* history and has left previousTracks
C24_Witness ==
    /\ ret.op = "handleTrackEnd"
    /\ Len(player.history) = 50
    /\ player.history[1] = 2
    /\ Len(player.previousTracks) = 10
    /\ Count(player.previousTracks, 2) = 0
----------------------------------------------------------------------------
\* The session

\* C25: the queue never contains the current track.  (That there is at most
\* one current track is the type of the field.)
C25_QueueWithoutCurrent ==
    player.track # NoTrack => Count(player.queue, player.track) = 0

----------------------------------------------------------------------------
\* The voice state

\* The key has a value after the fragment was merged into the voice state
Present(voiceState, state, key) ==
    IF state[key] = "absent" THEN voiceState[key] ELSE state[key] = "set"

\* C27: updateVoiceState stores the fragment, and it sends the voice update
\* if and only if the token, the endpoint and the session id all have a value
\* in the merged voice state, in whatever order the fragments came; an update
\* that leaves one of them without a value sends nothing and leaves the
\* connected flag, which the call sets only when its request has succeeded.
C27_VoiceSentWhenComplete ==
    [][/\ (ret'.op = "updateVoiceState" /\ ret'.res = 0) =>
             LET complete == \A key \in {"token", "endpoint", "sessionId"} :
                                Present(player.voiceState, ret'.arg, key)
             IN /\ \A key \in {"token", "endpoint", "sessionId"} :
                      player'.voiceState[key] = Present(player.voiceState, ret'.arg, key)
                /\ player'.connected = player.connected
                /\ IF complete
                   THEN /\ Len(player'.calls) = Len(player.calls) + 1
                        /\ LastCall(player').payload.voice # Absent
                   ELSE player'.calls = player.calls
       /\ (ret'.op = "updateVoiceState" /\ ret'.res = 1) =>
             player'.connected = (IF ret'.err = "none" THEN TRUE ELSE player.connected)]_vars

\* The session id came last and alone, and the voice update was sent
C27_Witness ==
    /\ ret.op = "updateVoiceState" /\ ret.res = 0
    /\ ret.arg = [token |-> "absent", endpoint |-> "absent", sessionId |-> "set"]
    /\ player.calls # <<>>
    /\ LastCall(player).payload.voice # Absent
    /\ ~player.connected
----------------------------------------------------------------------------
\* Saving and restoring

\* C28: when restoreQueue of the text saveQueue returned has run to its end,
\* the queue, the loop mode and the volume of the session are those it had
\* when saveQueue was called.
C28_RestoreRoundTrip ==
    [][Has(player'.out, "Queue restored from save")
          => <<player'.queue, player'.loopMode, player'.volume>> = player.snapshot]_vars

\* A session that lost its two queued tracks, its loop mode and its volume
\* after it was saved has them back
C28_Witness ==
    /\ player.out = <<"Queue restored from save">>
    /\ player.queue = <<1, 2>> /\ player.loopMode = "queue" /\ player.volume = 50
    /\ ret.op = "pause" /\ ret.res = 1
    /\ player.track = 1 /\ player.paused
    /\ player.text.queue = <<<<"1">>, <<"2">>>>
    /\ player.text.volume = <<"5", "0">>

\* C29: whenever restoreQueue fails, at its call or when one of its requests
\* fails, it fails with the restore-failed error, and the queue, the loop
\* mode, the volume, the current track and the paused flag are as they were
\* before the call.
C29_FailedRestoreChangesNothing ==
    [][/\ (ret'.op = "restoreQueue" /\ ret'.err # "none")
             => (ret'.err = "Failed to restore queue" /\ Kept(player') = Kept(player))
       /\ (/\ player.calls # <<>> /\ player.calls[1].caller = "restoreQueue"
           /\ ret'.res = 1 /\ ret'.err # "none")
             => (ret'.err = "Failed to restore queue"
                 /\ Kept(player') = player.calls[1].saved.before)]_vars
----------------------------------------------------------------------------
\* The position timer

\* C30: positionUpdateInterval is set only while the player has a current
\* track, is not paused and has not been destroyed.  (That there is at most
\* one interval is the single handle, cleared before it is set.)
C30_TimerOnlyWhilePlaying ==
    player.timer => (player.track # NoTrack /\ ~player.paused /\ ~player.destroyed)
----------------------------------------------------------------------------
\* The registry of players

\* C31: Manager.create for a guild that has a player returns that player:
\* the registry keeps the entry it had, no node is selected and no
\* playerCreate is emitted; create before init throws and registers nothing;
\* a player is only created for a guild that has none.
C31_OnePlayerPerGuild ==
    [][ret'.op = "create" =>
         /\ ~initialized => (ret'.res = "not initialized" /\ players' = players)
         /\ (initialized /\ players[ret'.arg] # 0) =>
               (ret'.res = "existing" /\ players' = players)
         /\ ret'.res = "created" =>
               (initialized /\ players[ret'.arg] = 0 /\ players'[ret'.arg] # 0)]_vars

\* create returned the guild's player, which is on one node, while
\* getBestNode would have selected another
C31_Witness ==
    /\ ret.op = "create" /\ ret.res = "existing"
    /\ players[ret.arg] # 0
    /\ getBestNode(<<>>) # 0
    /\ getBestNode(<<>>) # players[ret.arg]
\* The requests of node.destroyPlayer in flight
Deleting(p) == {i \in 1..Len(p.calls) : p.calls[i].op = "destroyPlayer"}

\* C32: the player leaves the registry only when the delete request of its
\* destroy has succeeded, and that request is sent only when the stop request
\* has succeeded; once Manager.destroyPlayer has been called for a guild that
\* has a player, the player is eventually removed from the registry, also
\* when one of the requests fails.
C32_RemovedAfterBackendCalls ==
    /\ [][/\ \A guildId \in Guilds :
              (players[guildId] # 0 /\ players'[guildId] = 0) =>
                 (ret'.op = "destroyPlayer" /\ ret'.res = 1 /\ ret'.err = "none")
          /\ Cardinality(Deleting(player')) > Cardinality(Deleting(player)) =>
                 (ret'.op = "stop" /\ ret'.res = 1 /\ ret'.err = "none")]_vars
    /\ \A guildId \in Guilds :
          (ret.op = "Manager.destroyPlayer" /\ ret.arg = guildId /\ ret.res = 0)
             ~> (players[guildId] = 0)
----------------------------------------------------------------------------
\* The AutoPlay engine

\* C33: the set of played identifiers never holds more than 50; an execute
\* that aborts (no previous track, node not connected) leaves it as it was;
\* any other execute leaves it unchanged if it holds the identifier, and
\* else appends the identifier, dropping the first (oldest inserted) one
\* from a set that held 50; no other step changes it.
C33_PlayedSetBounded ==
    [][LET old == player.playedIdentifiers
           new == player'.playedIdentifiers
           id == ret'.arg
       IN /\ Len(new) <= 50
          /\ IF ret'.op = "execute" /\ player'.out # <<"return false">>
             THEN IF \E i \in 1..Len(old) : old[i] = id THEN new = old
                  ELSE IF Len(old) = 50 THEN new = Append(SubSeq(old, 2, 50), id)
                  ELSE new = Append(old, id)
             ELSE new = old]_vars

\* The 51st identifier was inserted into the full set: track 2, inserted
\* first, is gone and track 1, inserted second, is now the oldest
C33_Witness ==
    /\ ret.op = "execute" /\ ret.arg = 51
    /\ Len(player.playedIdentifiers) = 50
    /\ player.playedIdentifiers[1] = 1
    /\ player.playedIdentifiers[50] = 51
\* The search of an execute has given a result
Searched == ret'.op = "search" /\ ret'.res = 1

\* The tracks the strategy for the track takes from the result of this step
Taken(result) ==
    IF result.loadType = "playlist" /\ ret'.arg # 1 THEN <<>> ELSE result.tracks

\* Track t is not in the set of played identifiers
Unplayed(t) == \A i \in 1..Len(player.playedIdentifiers) : player.playedIdentifiers[i] # t

\* This step has added one of the candidates to the queue, an unplayed one
\* if there is any, and called play(), which takes the head of the queue
Enqueued(tracks) ==
    /\ \E i \in 1..Len(tracks) :
          /\ <<player'.track>> \o player'.queue = Append(player.queue, tracks[i])
          /\ (\E j \in 1..Len(tracks) : Unplayed(tracks[j])) => Unplayed(tracks[i])
    /\ Len(player'.calls) = 1
    /\ player'.calls[1].op = "play" /\ player'.calls[1].caller = "execute"
    /\ player'.calls[1].payload.encodedTrack = player'.track

\* The play request of an execute is answered or fails
PlaySettles ==
    /\ player.calls # <<>>
    /\ player.calls[1].op = "play" /\ player.calls[1].caller = "execute"
    /\ ret'.op = "play" /\ ret'.res = 1

\* C34: when the search of a strategy gives candidates, one of them is added
\* to the queue, one that is not in the set of played identifiers if there
\* is such a candidate, play() is called, and execute returns true.
C34_PicksUnplayedCandidate ==
    [][/\ Searched =>
            \A result \in Results :
               (SearchResult(1, result) /\ Taken(result) # <<>>)
                  => Enqueued(Taken(result))
       /\ PlaySettles => player'.out = <<"return true">>]_vars

\* C34 as amended: ... play() is called, and execute returns true when the
\* request of that play succeeds and false when it fails.
C34_PicksUnplayedCandidateAndPlays ==
    [][/\ Searched =>
            \A result \in Results :
               (SearchResult(1, result) /\ Taken(result) # <<>>)
                  => Enqueued(Taken(result))
       /\ (PlaySettles /\ RestResolve(1)) => player'.out = <<"return true">>
       /\ (PlaySettles /\ RestReject(1)) => player'.out = <<"return false">>]_vars

\* Every candidate had been played, and the strategy took the track that
\* has just ended
C34_Witness ==
    /\ ret.op = "search" /\ ret.res = 1
    /\ player.track = ret.arg
    /\ player.calls # <<>> /\ player.calls[1].caller = "execute"
    /\ \E i \in 1..Len(player.playedIdentifiers) : player.playedIdentifiers[i] = ret.arg
    /\ Len(player.playedIdentifiers) > 1
----------------------------------------------------------------------------
\* Session resuming

\* The node had no session id and has never lost a socket or been
\* disconnected: its first handshake
FirstHandshake(n) ==
    /\ node[n].sessionId = NullSession
    /\ node[n].attempt = 0 /\ node[n].disc = "no" /\ ~node[n].gaveUp
    /\ node[n].state = "CONNECTED"

\* C35: a ready event makes the connection send updateSession(resuming =
\* true) only when the connection had a session id before the event; the
\* first handshake of a connection sends no such request.
C35_ResumeOnlyWithPriorSession ==
    [][\A n \in NodeIds :
         (ret'.op = "ready" /\ ret'.arg = n /\ ret'.res.resuming)
            => (node[n].sessionId # NullSession /\ ~FirstHandshake(n))]_vars

\* C35 as amended: a ready event makes the connection send
\* updateSession(true, resumeTimeout) for the session id it delivers exactly
\* when it reports that the session was not resumed, on the first handshake
\* too; a ready event that reports a resumed session sends no request.
C35_ResumeConfiguredUnlessResumed ==
    [][\A n \in NodeIds, sessionId \in SessionIds, wasResumed \in BOOLEAN :
         ReadyEvent(n, sessionId, wasResumed) =>
            IF wasResumed THEN ~ret'.res.resuming
            ELSE /\ ret'.res.resuming
                 /\ ret'.res.timeout = 60
                 /\ ret'.res.session = node'[n].sessionId
                 /\ ret'.res.session = sessionId]_vars

\* A ready event delivered a session that was not resumed, and the request
\* went out for that session with the configured timeout
C35_Witness ==
    /\ ret.op = "ready" /\ ret.res.resuming /\ ret.res.timeout = 60
    /\ ret.res.session = node[ret.arg].sessionId
    /\ node[ret.arg].state = "CONNECTED"
    /\ node[ret.arg].attempt = 0
----------------------------------------------------------------------------
\* The end of the queue

\* C36: when queueEnd is emitted the player has no current track and its
\* queue is empty.
C36_QueueEndOnlyWhenIdle ==
    Has(player.out, "queueEnd") => (player.track = NoTrack /\ player.queue = <<>>)
----------------------------------------------------------------------------
\* The end of a replaced track

\* C37: when the event of the end of a track that play, skip or previous
\* replaced (reason replaced or stopped) arrives after that call, the track
\* the call made current is still current and the timer still set, and the
\* track recorded in history and previousTracks is the replaced one.
C37_EndOfReplacedKeepsNew ==
    [][\A i \in 1..MaxInFlight :
         (/\ i <= Len(player.calls)
          /\ player.calls[i].saved.kind = "replaces"
          /\ ret'.op = "handleTrackEnd" /\ ret'.arg \in Interruptions)
            => /\ player'.track = player.track
               /\ player'.timer
               /\ player'.history
                     = Recorded(player.history, player.calls[i].saved.old, 50)
               /\ player'.previousTracks
                     = Recorded(player.previousTracks, player.calls[i].saved.old, 10)]_vars

-----------------------------------------------------------------------------
\* The timers and attempts of one connection

\* The reconnect timers of the connection that have not fired: the one
\* this.reconnectTimeout refers to and those whose handle was overwritten
PendingReconnects(r) == (IF r.rtPending THEN 1 ELSE 0) + r.rtOrphans

\* The connect() calls of the connection that wait in waitForConnection
AttemptsInProgress(r) == (IF r.addWait THEN 1 ELSE 0) + r.recWait

\* One connection left to itself after addNode: its sockets open and close,
\* its waits settle and its timers fire, and nobody calls connect() again
NextReconnect ==
    \/ ManagerInit
    \/ \E options \in ConnOptions :
          Cardinality(Constructed) < MaxTracked /\ AddNode(options)
    \/ \E n \in NodeIds : AddNodeResolve(n)
    \/ \E n \in NodeIds, error \in WaitErrors : AddNodeReject(n, error)
    \/ \E n \in NodeIds, which \in Sockets : SocketOpen(n, which)
    \/ \E n \in NodeIds, which \in Sockets : SocketClosing(n, which)
    \/ \E n \in NodeIds, which \in Sockets, from \in LiveStates, code \in CloseCodes :
          SocketClose(n, which, from, code)
    \/ \E n \in NodeIds, sessionId \in SessionIds, wasResumed \in BOOLEAN :
          ReadyEvent(n, sessionId, wasResumed)
    \/ \E n \in NodeIds : HeartbeatTick(n)
    \/ \E n \in NodeIds, which \in {"tracked", "orphan"} : ReconnectTimer(n, which)
    \/ \E n \in NodeIds : ReconnectResolve(n)
    \/ \E n \in NodeIds, error \in WaitErrors : ReconnectReject(n, error)

SpecReconnect == Init /\ [][NextReconnect]_vars

\* C38: at any time a connection has at most one pending reconnect timer and
\* at most one connection attempt in progress; stated of the connections
\* whose initial connect() has settled, so that only socket closes, connect
\* timeouts and timer firings are involved.
C38_OneTimerOneAttempt ==
    \A n \in NodeIds :
        (Exists(n) /\ ~node[n].addWait)
            => /\ PendingReconnects(node[n]) <= 1
               /\ AttemptsInProgress(node[n]) <= 1

\* The connection whose connect() rejected in addNode: the catch block has
\* removed it from the registry and nothing refers to it any more
Dropped(n) ==
    /\ Exists(n)
    /\ ~node[n].addWait
    /\ \A i \in 1..Len(registry) : registry[i] # n

\* C39: a connection whose connect() rejected, and which addNode dropped from
\* the registry, is not CONNECTED afterwards and runs no reconnect timer and
\* no heartbeat interval, nobody having called connect() again.
C39_RejectedStaysDown ==
    \A n \in NodeIds :
        Dropped(n) => /\ node[n].state # "CONNECTED"
                      /\ PendingReconnects(node[n]) = 0
                      /\ ~HeartbeatRuns(n)

\* C40: every connection attempt of a node, the automatic reconnect attempts
\* included, sends as 'User-Id' the client id the registry passed to the
\* initial connect(clientId); stated of the connections the registry kept.
C40_SameClientId ==
    \A n \in NodeIds :
        (Exists(n) /\ ~Dropped(n) /\ node[n].userId # "none")
            => node[n].userId = "clientId"
====
